---- MODULE Spec2Model ----
(***************************************************************************)
(* Model of the tts-external-api protocol layer: the wire codec            *)
(* (src/src/messages.rs), the transport and the selective waiter           *)
(* (src/src/tcp.rs) and the command facade (src/src/messages.rs).          *)
(*                                                                         *)
(* JSON values are records [t |-> kind, v |-> content]; text that is       *)
(* parsed a second time (returnValue) is a sequence of one-character       *)
(* strings so that the parse is computed, not assumed.                     *)
(***************************************************************************)
EXTENDS Integers, Sequences, FiniteSets, TLC

VARIABLES
    peerUp,     \* TRUE while the game listens on 127.0.0.1:39999
    arrived,    \* every inbound connection made to 127.0.0.1:39998, in arrival order
    pending,    \* the listener's queue: connections made and not yet accepted
    consumed,   \* number of inbound connections accepted from the listener so far
    cmds,       \* the encoded commands the game has received, in order
    connects,   \* number of TcpStream::connect attempts made so far
    pc,         \* position of the caller: "idle", "send", "wait", "read", "panic"
    cur,        \* the call in progress
    log,        \* the completed calls with their results
    wire,       \* codec harness: the payload of one connection
    decoded,    \* codec harness: what Answer::deserialize makes of it
    readOut,    \* codec harness: what read makes of it
    streams,    \* the outbound connections: how many were opened, flushed, closed
    sconns,     \* byte view: every inbound connection with what the game wrote on it
    saccepted,  \* byte view: number of connections accepted
    rbuf,       \* byte view: the chunks read_to_string has put into the buffer
    rpc,        \* byte view: position of the reader
    srets,      \* byte view: what the read calls returned
    tpc,        \* threads: position of each thread
    twant,      \* threads: the variant each thread waits for
    tstream,    \* threads: the connection a thread has accepted and not yet read
    tseen,      \* threads: the arrival numbers each thread has accepted
    tgot,       \* threads: what each thread's call returned
    client,     \* binding: the state of each client of the inbound address
    msg,        \* encoder harness: the message under encoding
    encoded,    \* encoder harness: the map serialized for it
    nin,        \* narrowing harness: the Answer or Message to narrow
    nT,         \* narrowing harness: the type to narrow it to
    nout,       \* narrowing harness: what try_from returned
    rin,        \* sync/async runs: the call and the environment it runs in
    rarrived,   \* sync/async runs: the payloads of the inbound connections made
    sy,         \* sync/async runs: the synchronous run of the call
    ay,         \* sync/async runs: the async run of the call
    objects,    \* tool: the objects of the game session, each with its tags
    fsys,       \* tool: the path given to the tool, the files under it, the save
    args,       \* tool: the subcommand and its arguments
    cpc,        \* tool: position of the tool
    cloc,       \* tool: the locals of the running subcommand
    csent,      \* tool: the commands the tool has sent to the game, in order
    cres        \* tool: what the subcommand returned

codec == <<wire, decoded, readOut>>

bytes == <<sconns, saccepted, rbuf, rpc, srets>>

threads == <<tpc, twant, tstream, tseen, tgot>>

encoder == <<msg, encoded>>

narrow == <<nin, nT, nout>>

runs == <<rin, rarrived, sy, ay>>

cli == <<objects, fsys, args, cpc, cloc, csent, cres>>

\* The variables of the harnesses other than the codec's.
rest == <<bytes, threads, client, encoder, narrow, runs, cli>>

vars == <<peerUp, arrived, pending, consumed, cmds, connects, pc, cur, log,
          streams, codec, rest>>

----------------------------------------------------------------------------
\* Bounds of the model.

MaxEvents == 2
MaxCalls == 2

----------------------------------------------------------------------------
\* JSON values (serde_json::Value).

Null == [t |-> "null"]
Bool(b) == [t |-> "bool", v |-> b]
Num(n) == [t |-> "num", v |-> n]
Float(whole, frac) == [t |-> "float", v |-> whole, f |-> frac]
Str(s) == [t |-> "str", v |-> s]
Arr(s) == [t |-> "arr", v |-> s]
Obj(r) == [t |-> "obj", v |-> r]

\* Text is a sequence of one-character strings.
Digits == <<"0", "1", "2", "3", "4", "5", "6", "7", "8", "9">>

IsDigit(c) == \E i \in 1..10 : Digits[i] = c

DigitVal(c) == (CHOOSE i \in 1..10 : Digits[i] = c) - 1

RECURSIVE NatVal(_)
NatVal(s) == IF s = <<>> THEN 0
             ELSE 10 * NatVal(SubSeq(s, 1, Len(s) - 1)) + DigitVal(s[Len(s)])

RECURSIVE TrimLeft(_)
TrimLeft(s) == IF s # <<>> /\ Head(s) = " " THEN TrimLeft(Tail(s)) ELSE s

RECURSIVE TrimRight(_)
TrimRight(s) == IF s # <<>> /\ s[Len(s)] = " "
                THEN TrimRight(SubSeq(s, 1, Len(s) - 1)) ELSE s

Trim(s) == TrimRight(TrimLeft(s))

\* An unsigned JSON integer: digits, no leading zero.
IsNatText(s) == /\ s # <<>>
                /\ \A i \in 1..Len(s) : IsDigit(s[i])
                /\ (Len(s) > 1 => s[1] # "0")

IsIntText(s) == \/ IsNatText(s)
                \/ s # <<>> /\ Head(s) = "-" /\ IsNatText(Tail(s))

IntVal(s) == IF Head(s) = "-" THEN 0 - NatVal(Tail(s)) ELSE NatVal(s)

\* A JSON string literal without escapes: "..." .
IsQuotedText(s) == /\ Len(s) >= 2
                   /\ s[1] = "\"" /\ s[Len(s)] = "\""
                   /\ \A i \in 2..(Len(s) - 1) : s[i] \notin {"\"", "\\"}

Ok(x) == [ok |-> TRUE, val |-> x]
Err(e) == [ok |-> FALSE, err |-> e]

\* serde_json::from_str::<Value> on the scalar texts of the model: surrounding
\* blanks are skipped, then the text is null, true, false, an integer or a
\* string literal; anything else is a syntax error.
from_str(s) ==
    LET x == Trim(s) IN
    IF x = <<"n", "u", "l", "l">> THEN Ok(Null)
    ELSE IF x = <<"t", "r", "u", "e">> THEN Ok(Bool(TRUE))
    ELSE IF x = <<"f", "a", "l", "s", "e">> THEN Ok(Bool(FALSE))
    ELSE IF IsIntText(x) THEN Ok(Num(IntVal(x)))
    ELSE IF IsQuotedText(x) THEN Ok(Str(SubSeq(x, 2, Len(x) - 1)))
    ELSE Err("syntax")

unwrap_or(r, d) == IF r.ok THEN r.val ELSE d

\* A returnValue that is handed on as it arrived.
deserialize_json_string_raw(present, val) ==
    IF ~present THEN Null ELSE val

\* A returnValue that falls back to the default when the second parse fails.
deserialize_json_string_default(present, val) ==
    IF ~present THEN Null
    ELSE IF val.t = "null" THEN Null
    ELSE IF val.t = "str" THEN unwrap_or(from_str(val.v), Null)
    ELSE val

\* A second stage that parses what it got for as long as it is a string.
deserialize_json_string_deep(present, val) ==
    IF ~present THEN Null
    ELSE IF val.t = "null" THEN Null
    ELSE IF val.t = "str"
    THEN LET once == unwrap_or(from_str(val.v), Str(val.v)) IN
         IF once.t = "str" THEN unwrap_or(from_str(once.v), once) ELSE once
    ELSE val

\* deserialize_json_string: Option::deserialize gives None for null, the
\* field default (Value::Null) stands for an absent field; a string is parsed
\* once more and kept as it is when the parse fails.
deserialize_json_string(present, val) ==
    IF ~present THEN Null
    ELSE IF val.t = "null" THEN Null
    ELSE IF val.t = "str" THEN unwrap_or(from_str(val.v), Str(val.v))
    ELSE val

----------------------------------------------------------------------------
\* Incoming messages (Answer) and their decoding.

\* What a function call can come to besides a value: an Err value, or a panic
\* that unwinds through every caller.
Panic == [ok |-> FALSE, err |-> "panic"]

unwrap(r) == IF r.ok THEN r ELSE Panic

\* Value::get on a key: Some only for an object that has the key.
has(value, key) == value.t = "obj" /\ key \in DOMAIN value.v

\* An as_u64 that cuts the fraction off a number that has one.
as_u64_truncating(v) ==
    IF v.t \in {"num", "float"} /\ v.v >= 0 THEN Ok(v.v) ELSE Err("none")

\* Value::as_u64: Some for a number stored as an unsigned integer; a number
\* written with a fraction or an exponent is stored as a float and gives None.
as_u64(v) == IF v.t = "num" /\ v.v >= 0 THEN Ok(v.v) ELSE Err("none")

\* Fields of the derived Deserialize impls: a String field needs a JSON
\* string, a Value field any JSON value, a u64 field an unsigned integer; a
\* field that is absent is an error, fields that are not named are ignored.
StringField(value, key) == has(value, key) /\ value.v[key].t = "str"

ValueField(value, key) == has(value, key)

U64Field(value, key) == has(value, key) /\ as_u64(value.v[key]).ok

AnswerNewObject(value) ==
    IF ValueField(value, "scriptStates")
    THEN Ok([script_states |-> value.v["scriptStates"]])
    ELSE Err("missing field")

\* An AnswerReload whose save_path is empty when the payload has none.
AnswerReload_lenient(value) ==
    IF ValueField(value, "scriptStates")
    THEN Ok([save_path |-> IF StringField(value, "savePath")
                           THEN value.v["savePath"].v ELSE <<>>,
             script_states |-> value.v["scriptStates"]])
    ELSE Err("missing field")

AnswerReload(value) ==
    IF StringField(value, "savePath") /\ ValueField(value, "scriptStates")
    THEN Ok([save_path |-> value.v["savePath"].v,
             script_states |-> value.v["scriptStates"]])
    ELSE Err("missing field")

AnswerPrint(value) ==
    IF StringField(value, "message")
    THEN Ok([message |-> value.v["message"].v])
    ELSE Err("missing field")

AnswerError(value) ==
    IF /\ StringField(value, "error")
       /\ StringField(value, "guid")
       /\ StringField(value, "errorMessagePrefix")
    THEN Ok([error |-> value.v["error"].v,
             guid |-> value.v["guid"].v,
             error_message_prefix |-> value.v["errorMessagePrefix"].v])
    ELSE Err("missing field")

AnswerCustomMessage(value) ==
    IF ValueField(value, "customMessage")
    THEN Ok([custom_message |-> value.v["customMessage"]])
    ELSE Err("missing field")

AnswerReturn(value) ==
    IF U64Field(value, "returnID")
    THEN Ok([return_id |-> value.v["returnID"].v,
             return_value |->
                 deserialize_json_string(
                     has(value, "returnValue"),
                     IF has(value, "returnValue")
                     THEN value.v["returnValue"] ELSE Null)])
    ELSE Err("missing field")

AnswerGameSaved(value) ==
    IF value.t = "obj" THEN Ok([saved |-> TRUE]) ELSE Err("invalid type")

AnswerObjectCreated(value) ==
    IF StringField(value, "guid")
    THEN Ok([guid |-> value.v["guid"].v])
    ELSE Err("missing field")

\* Answer::X(X::deserialize(value).unwrap())
Variant(tag, r) == IF r.ok THEN Ok([tag |-> tag, body |-> r.val]) ELSE Panic

\* An unsupported id that comes back as a decoding error.
Unsupported_err(id_) == Err("unsupported id")

\* id_ => panic!("unsupported id {:?}", id_)
Unsupported(id_) == Panic

\* A decoder that takes a payload with a returnID for a ReturnValue and one
\* with a message for a Printed event, and looks at the id only after that.
AnswerDeserialize_byfields(w) ==
    IF ~w.json THEN Err("syntax")
    ELSE
    LET value == w.val
        id == IF has(value, "messageID")
              THEN as_u64(value.v["messageID"]) ELSE Err("none")
    IN  IF ~id.ok THEN Panic
        ELSE IF has(value, "returnID")
        THEN Variant("AnswerReturn", AnswerReturn(value))
        ELSE IF has(value, "message")
        THEN Variant("AnswerPrint", AnswerPrint(value))
        ELSE CASE id.val = 0 -> Variant("AnswerNewObject", AnswerNewObject(value))
               [] id.val = 1 -> Variant("AnswerReload", AnswerReload(value))
               [] id.val = 2 -> Variant("AnswerPrint", AnswerPrint(value))
               [] id.val = 3 -> Variant("AnswerError", AnswerError(value))
               [] id.val = 4 -> Variant("AnswerCustomMessage", AnswerCustomMessage(value))
               [] id.val = 5 -> Variant("AnswerReturn", AnswerReturn(value))
               [] id.val = 6 -> Variant("AnswerGameSaved", AnswerGameSaved(value))
               [] id.val = 7 -> Variant("AnswerObjectCreated", AnswerObjectCreated(value))
               [] OTHER -> Unsupported(id.val)

\* impl Deserialize for Answer.  w is the payload text of one connection:
\* [json |-> FALSE] when it is not JSON, else [json |-> TRUE, val |-> value].
AnswerDeserialize(w) ==
    IF ~w.json THEN Err("syntax")
    ELSE
    LET value == w.val
        id == IF has(value, "messageID")
              THEN as_u64(value.v["messageID"]) ELSE Err("none")
    IN  IF ~id.ok THEN Panic
        ELSE CASE id.val = 0 -> Variant("AnswerNewObject", AnswerNewObject(value))
               [] id.val = 1 -> Variant("AnswerReload", AnswerReload(value))
               [] id.val = 2 -> Variant("AnswerPrint", AnswerPrint(value))
               [] id.val = 3 -> Variant("AnswerError", AnswerError(value))
               [] id.val = 4 -> Variant("AnswerCustomMessage", AnswerCustomMessage(value))
               [] id.val = 5 -> Variant("AnswerReturn", AnswerReturn(value))
               [] id.val = 6 -> Variant("AnswerGameSaved", AnswerGameSaved(value))
               [] id.val = 7 -> Variant("AnswerObjectCreated", AnswerObjectCreated(value))
               [] OTHER -> Unsupported(id.val)

AnswerTypes == {"AnswerNewObject", "AnswerReload", "AnswerPrint", "AnswerError",
                "AnswerCustomMessage", "AnswerReturn", "AnswerGameSaved",
                "AnswerObjectCreated"}
\* enum Error: the variants that carry what could not be narrowed.
Error_MessageError(message) == [error |-> "MessageError", of |-> message]

Error_AnswerError(answer) == [error |-> "AnswerError", of |-> answer]

\* A narrowing whose error names the variant it met and drops its payload.
try_from_lossy(T, answer) ==
    IF answer.tag = T THEN Ok(answer.body)
    ELSE Err(Error_AnswerError([tag |-> answer.tag]))

\* A narrowing that takes any variant for T.
try_from_any(T, answer) == Ok(answer.body)

\* A narrowing to AnswerReturn that takes only the return_id 5 that execute
\* sends.
try_from_correlated(T, answer) ==
    IF answer.tag = T /\ (T = "AnswerReturn" => answer.body.return_id = 5)
    THEN Ok(answer.body) ELSE Err(Error_AnswerError(answer))

\* impl TryFrom<Answer> for T: the payload of the variant T, else
\* Error::AnswerError carrying the answer.
try_from(T, answer) ==
    IF answer.tag = T THEN Ok(answer.body) ELSE Err(Error_AnswerError(answer))

\* impl TryFrom<Message> for T: the struct of the variant T, else
\* Error::MessageError carrying the message.
message_try_from(T, message) ==
    IF message.tag = T THEN Ok(message.body)
    ELSE Err(Error_MessageError(message))

----------------------------------------------------------------------------
\* Outgoing messages (Message) and their encoding.

MessageGetScripts_new == [tag |-> "MessageGetScripts", body |-> <<>>]

MessageReload_new(script_states) ==
    [tag |-> "MessageReload", body |-> [script_states |-> script_states]]

MessageCustomMessage_new(custom_message) ==
    [tag |-> "MessageCustomMessage", body |-> [custom_message |-> custom_message]]

\* A constructor that numbers the commands: the n-th command sent gets the
\* return_id 5 + n.
MessageExecute_new_numbered(script) ==
    [tag |-> "MessageExecute",
     body |-> [return_id |-> 5 + Len(cmds), guid |-> <<"-", "1">>,
               script |-> script]]

MessageExecute_new(script) ==
    [tag |-> "MessageExecute",
     body |-> [return_id |-> 5, guid |-> <<"-", "1">>, script |-> script]]

MessageExecute_new_object(script, guid) ==
    [tag |-> "MessageExecute",
     body |-> [return_id |-> 5, guid |-> guid, script |-> script]]

\* A Serialize that writes the variant's struct as one value under the
\* variant's name.
MessageSerialize_nested(message) ==
    LET id_ == CASE message.tag = "MessageGetScripts" -> 0
                 [] message.tag = "MessageReload" -> 1
                 [] message.tag = "MessageCustomMessage" -> 2
                 [] message.tag = "MessageExecute" -> 3
    IN  <<<<"messageID", Num(id_)>>, <<message.tag, Obj(message.body)>>>>

\* impl Serialize for Message: one map, the messageID entry first, then the
\* entries of the variant's struct under their wire names.
MessageSerialize(message) ==
    LET id_ == CASE message.tag = "MessageGetScripts" -> 0
                 [] message.tag = "MessageReload" -> 1
                 [] message.tag = "MessageCustomMessage" -> 2
                 [] message.tag = "MessageExecute" -> 3
        entries ==
            CASE message.tag = "MessageGetScripts" -> <<>>
              [] message.tag = "MessageReload" ->
                    <<<<"scriptStates", message.body.script_states>>>>
              [] message.tag = "MessageCustomMessage" ->
                    <<<<"customMessage", message.body.custom_message>>>>
              [] message.tag = "MessageExecute" ->
                    <<<<"returnID", Num(message.body.return_id)>>,
                      <<"guid", Str(message.body.guid)>>,
                      <<"script", Str(message.body.script)>>>>
    IN  <<<<"messageID", Num(id_)>>>> \o entries

----------------------------------------------------------------------------
\* The payloads the game emits in the protocol model.

W(r) == [json |-> TRUE, val |-> Obj(r)]

NotJson == [json |-> FALSE]

EvNewObject == W([messageID |-> Num(0), scriptStates |-> Arr(<<>>)])

EvReload == W([messageID |-> Num(1), savePath |-> Str(<<"p">>),
               scriptStates |-> Arr(<<>>)])

EvPrint == W([messageID |-> Num(2), message |-> Str(<<"m">>)])

EvReturn2 == W([messageID |-> Num(5), returnID |-> Num(5),
                returnValue |-> Str(<<"2">>)])

EvReturnHi == W([messageID |-> Num(5), returnID |-> Num(7),
                 returnValue |-> Str(<<"h", "i">>)])

EvUnknownId == W([messageID |-> Num(8)])

EventPayloads == {EvNewObject, EvReload, EvPrint, EvReturn2, EvReturnHi,
                  EvUnknownId, NotJson}

\* The arguments callers pass in the protocol model.
Scripts == {<<"r">>}
Guids == {<<"g">>}
States == {Arr(<<>>)}
CustomMessages == {Obj([foo |-> Str(<<"F">>)])}

\* The variants callers wait for directly.
WaitTypes == {"AnswerNewObject", "AnswerPrint", "AnswerReturn"}

----------------------------------------------------------------------------
\* Transport, selective waiter and command facade.

NoCall == [op |-> "none"]

\* The record of a call that has returned to its caller.
\* idx is the arrival number of the connection the result was read from, 0
\* when the call returned without one.
Done(call, res, idx, upto, c1, n1, s1) ==
    [op |-> call.op, want |-> call.want, from |-> call.from, upto |-> upto,
     idx |-> idx,
     c0 |-> call.c0, n0 |-> call.n0, c1 |-> c1, n1 |-> n1,
     s0 |-> call.s0, s1 |-> s1,
     res |-> res]

Call(op, want) ==
    [op |-> op, want |-> want, from |-> consumed, c0 |-> connects,
     n0 |-> Len(cmds), s0 |-> streams]

\* The outbound stream of one send: TcpStream::connect opened it, and the
\* local `stream` is dropped, which closes it, when send is left, by return
\* or by panic.
Connected(st) == [st EXCEPT !.opened = @ + 1, !.closed = @ + 1]

\* The same stream after write_all and flush have succeeded on it.
Flushed(st) == [Connected(st) EXCEPT !.flushed = @ + 1]

\* A send that does not report a failed connect.
send_swallow(message, writeOk) ==
    IF ~peerUp THEN [res |-> Ok(<<>>), out |-> cmds, st |-> streams]
    ELSE IF ~writeOk
    THEN [res |-> Panic, out |-> cmds, st |-> Connected(streams)]
    ELSE [res |-> Ok(<<>>), out |-> Append(cmds, MessageSerialize(message)),
          st |-> Flushed(streams)]

\* A send that returns the error of a failing write to its caller.
send_write_err(message, writeOk) ==
    IF ~peerUp THEN [res |-> Err("io"), out |-> cmds, st |-> streams]
    ELSE IF ~writeOk
    THEN [res |-> Err("io"), out |-> cmds, st |-> Connected(streams)]
    ELSE [res |-> Ok(<<>>), out |-> Append(cmds, MessageSerialize(message)),
          st |-> Flushed(streams)]

\* A send that keeps its stream and writes the next command on it.
send_reuse(message, writeOk) ==
    LET kept == IF streams.opened > streams.closed THEN streams
                ELSE [streams EXCEPT !.opened = @ + 1] IN
    IF ~peerUp THEN [res |-> Err("io"), out |-> cmds, st |-> streams]
    ELSE IF ~writeOk THEN [res |-> Panic, out |-> cmds, st |-> kept]
    ELSE [res |-> Ok(<<>>), out |-> Append(cmds, MessageSerialize(message)),
          st |-> [kept EXCEPT !.flushed = @ + 1]]

\* ExternalEditorApi::send: one connect; on failure the error is returned
\* and nothing is written; on success the whole encoded message is written
\* and flushed, and a failing write or flush panics.
send(message, writeOk) ==
    IF ~peerUp THEN [res |-> Err("io"), out |-> cmds, st |-> streams]
    ELSE IF ~writeOk
    THEN [res |-> Panic, out |-> cmds, st |-> Connected(streams)]
    ELSE [res |-> Ok(<<>>), out |-> Append(cmds, MessageSerialize(message)),
          st |-> Flushed(streams)]

\* ExternalEditorApi::read on the connection conn that accept() yields: the
\* payload is read to the end and decoded, and the decoding is unwrapped.
read(conn) == unwrap(AnswerDeserialize(conn))

\* A facade function that empties the listener's queue when it has sent its
\* command, before it waits.
Facade_flush(op, message, want) ==
    /\ pc = "idle"
    /\ Len(log) < MaxCalls
    /\ \E writeOk \in BOOLEAN :
        LET s == send(message, writeOk) IN
        /\ connects' = connects + 1
        /\ cmds' = s.out
        /\ streams' = s.st
        /\ IF s.res = Panic
           THEN /\ pc' = "panic" /\ cur' = Call(op, want) /\ log' = log
                /\ UNCHANGED <<pending, consumed>>
           ELSE IF ~s.res.ok
           THEN /\ pc' = "idle" /\ cur' = NoCall
                /\ log' = Append(log, Done(Call(op, want), s.res, 0, consumed,
                                     connects + 1, Len(s.out), s.st))
                /\ UNCHANGED <<pending, consumed>>
           ELSE IF want = "none"
           THEN /\ pc' = "idle" /\ cur' = NoCall
                /\ log' = Append(log, Done(Call(op, want), Ok(<<>>), 0, consumed,
                                     connects + 1, Len(s.out), s.st))
                /\ UNCHANGED <<pending, consumed>>
           ELSE /\ pc' = "wait" /\ log' = log
                /\ pending' = <<>>
                /\ consumed' = consumed + Len(pending)
                /\ cur' = [Call(op, want) EXCEPT !.from = consumed + Len(pending)]
    /\ UNCHANGED <<peerUp, arrived, codec, rest>>

\* A facade function up to the point where it returns or starts to wait:
\* self.send(message)? and then either Ok(()) or Ok(self.wait()).
Facade(op, message, want) ==
    /\ pc = "idle"
    /\ Len(log) < MaxCalls
    /\ \E writeOk \in BOOLEAN :
        LET s == send(message, writeOk) IN
        /\ connects' = connects + 1
        /\ cmds' = s.out
        /\ streams' = s.st
        /\ IF s.res = Panic
           THEN pc' = "panic" /\ cur' = Call(op, want) /\ log' = log
           ELSE IF ~s.res.ok
           THEN /\ pc' = "idle" /\ cur' = NoCall
                /\ log' = Append(log, Done(Call(op, want), s.res, 0, consumed,
                                     connects + 1, Len(s.out), s.st))
           ELSE IF want = "none"
           THEN /\ pc' = "idle" /\ cur' = NoCall
                /\ log' = Append(log, Done(Call(op, want), Ok(<<>>), 0, consumed,
                                     connects + 1, Len(s.out), s.st))
           ELSE pc' = "wait" /\ cur' = Call(op, want) /\ log' = log
    /\ UNCHANGED <<peerUp, arrived, pending, consumed, codec, rest>>

get_scripts == Facade("get_scripts", MessageGetScripts_new, "AnswerReload")

reload == \E script_states \in States :
    Facade("reload", MessageReload_new(script_states), "AnswerReload")

\* A custom_message that waits for the game's custom message in return.
custom_message_wait == \E message \in CustomMessages :
    Facade("custom_message", MessageCustomMessage_new(message),
           "AnswerCustomMessage")

custom_message == \E message \in CustomMessages :
    Facade("custom_message", MessageCustomMessage_new(message), "none")

\* An execute that waits for the answer of a reload.
execute_reload == \E script \in Scripts :
    Facade("execute", MessageExecute_new(script), "AnswerReload")

execute == \E script \in Scripts :
    Facade("execute", MessageExecute_new(script), "AnswerReturn")

execute_on_object == \E script \in Scripts, guid \in Guids :
    Facade("execute_on_object", MessageExecute_new_object(script, guid),
           "AnswerReturn")

\* A wait that asks the game for its scripts before it listens.
wait_call_asking == \E T \in WaitTypes :
    /\ pc = "idle"
    /\ Len(log) < MaxCalls
    /\ pc' = "wait"
    /\ cur' = Call("wait", T)
    /\ connects' = connects + 1
    /\ cmds' = send(MessageGetScripts_new, TRUE).out
    /\ streams' = send(MessageGetScripts_new, TRUE).st
    /\ UNCHANGED <<peerUp, arrived, pending, consumed, log, codec, rest>>

\* A caller enters wait::<T>() without sending anything.
wait_call == \E T \in WaitTypes :
    /\ pc = "idle"
    /\ Len(log) < MaxCalls
    /\ pc' = "wait"
    /\ cur' = Call("wait", T)
    /\ UNCHANGED <<peerUp, arrived, pending, consumed, cmds, connects, streams, log, codec, rest>>

\* A caller enters read().
read_call ==
    /\ pc = "idle"
    /\ Len(log) < MaxCalls
    /\ pc' = "read"
    /\ cur' = Call("read", "any")
    /\ UNCHANGED <<peerUp, arrived, pending, consumed, cmds, connects, streams, log, codec, rest>>

\* A wait that looks at the next connection and leaves it queued when it
\* matches.
wait_peek ==
    /\ pc = "wait"
    /\ pending # <<>>
    /\ LET r == read(Head(pending).w) IN
       IF ~r.ok
       THEN /\ pc' = "panic" /\ pending' = Tail(pending)
            /\ consumed' = consumed + 1 /\ UNCHANGED <<cur, log>>
       ELSE LET m == try_from(cur.want, r.val) IN
            IF m.ok
            THEN /\ pc' = "idle" /\ cur' = NoCall
                 /\ log' = Append(log, Done(cur, Ok(m.val), Head(pending).n,
                                            consumed, connects, Len(cmds), streams))
                 /\ UNCHANGED <<pending, consumed>>
            ELSE /\ pending' = Tail(pending) /\ consumed' = consumed + 1
                 /\ UNCHANGED <<pc, cur, log>>
    /\ UNCHANGED <<peerUp, arrived, cmds, connects, streams, codec, rest>>

\* A wait that drops a payload it cannot decode and goes on.
wait_skipbad ==
    /\ pc = "wait"
    /\ pending # <<>>
    /\ pending' = Tail(pending)
    /\ consumed' = consumed + 1
    /\ LET r == read(Head(pending).w) IN
       IF ~r.ok
       THEN UNCHANGED <<pc, cur, log>>
       ELSE LET m == try_from(cur.want, r.val) IN
            IF m.ok
            THEN /\ pc' = "idle" /\ cur' = NoCall
                 /\ log' = Append(log, Done(cur, Ok(m.val), Head(pending).n,
                                            consumed + 1, connects, Len(cmds), streams))
            ELSE UNCHANGED <<pc, cur, log>>
    /\ UNCHANGED <<peerUp, arrived, cmds, connects, streams, codec, rest>>

\* A wait that leaves a connection that does not match at the head of the
\* queue.
wait_nodrop ==
    /\ pc = "wait"
    /\ pending # <<>>
    /\ LET r == read(Head(pending).w) IN
       IF ~r.ok
       THEN /\ pc' = "panic" /\ pending' = Tail(pending)
            /\ consumed' = consumed + 1 /\ UNCHANGED <<cur, log>>
       ELSE LET m == try_from(cur.want, r.val) IN
            IF m.ok
            THEN /\ pc' = "idle" /\ cur' = NoCall
                 /\ pending' = Tail(pending) /\ consumed' = consumed + 1
                 /\ log' = Append(log, Done(cur, Ok(m.val), Head(pending).n,
                                            consumed + 1, connects, Len(cmds), streams))
            ELSE UNCHANGED <<pc, cur, log, pending, consumed>>
    /\ UNCHANGED <<peerUp, arrived, cmds, connects, streams, codec, rest>>

\* A selective receive: the first queued connection that matches is taken and
\* the ones before it stay queued.
wait_selective ==
    /\ pc = "wait"
    /\ \E k \in 1..Len(pending) :
        /\ \A j \in 1..k : read(pending[j].w).ok
        /\ try_from(cur.want, read(pending[k].w).val).ok
        /\ \A j \in 1..(k - 1) : ~try_from(cur.want, read(pending[j].w).val).ok
        /\ pending' = SubSeq(pending, 1, k - 1) \o SubSeq(pending, k + 1, Len(pending))
        /\ consumed' = consumed + 1
        /\ pc' = "idle" /\ cur' = NoCall
        /\ log' = Append(log, Done(cur, Ok(try_from(cur.want, read(pending[k].w).val).val),
                                   pending[k].n, consumed + 1, connects, Len(cmds), streams))
    /\ UNCHANGED <<peerUp, arrived, cmds, connects, streams, codec, rest>>

\* A waiter that, when it finds its answer, empties the queue behind it.
wait_drain ==
    /\ pc = "wait"
    /\ pending # <<>>
    /\ LET r == read(Head(pending).w) IN
       IF ~r.ok
       THEN /\ pending' = Tail(pending) /\ consumed' = consumed + 1
            /\ pc' = "panic" /\ UNCHANGED <<cur, log>>
       ELSE LET m == try_from(cur.want, r.val) IN
            IF m.ok
            THEN /\ pending' = <<>> /\ consumed' = consumed + Len(pending)
                 /\ pc' = "idle" /\ cur' = NoCall
                 /\ log' = Append(log, Done(cur, Ok(m.val), Head(pending).n,
                                            consumed + 1, connects, Len(cmds), streams))
            ELSE /\ pending' = Tail(pending) /\ consumed' = consumed + 1
                 /\ UNCHANGED <<pc, cur, log>>
    /\ UNCHANGED <<peerUp, arrived, cmds, connects, streams, codec, rest>>

\* One turn of the loop of ExternalEditorApi::wait: read the next answer and
\* return it when it narrows to T, else drop it and go round again.
wait ==
    /\ pc = "wait"
    /\ pending # <<>>
    /\ pending' = Tail(pending)
    /\ consumed' = consumed + 1
    /\ LET r == read(Head(pending).w) IN
       IF ~r.ok
       THEN pc' = "panic" /\ UNCHANGED <<cur, log>>
       ELSE LET m == try_from(cur.want, r.val) IN
            IF m.ok
            THEN /\ pc' = "idle" /\ cur' = NoCall
                 /\ log' = Append(log, Done(cur, Ok(m.val), Head(pending).n,
                                            consumed + 1, connects, Len(cmds), streams))
            ELSE UNCHANGED <<pc, cur, log>>
    /\ UNCHANGED <<peerUp, arrived, cmds, connects, streams, codec, rest>>

\* A read that takes the connection that arrived last.
read_latest ==
    /\ pc = "read"
    /\ pending # <<>>
    /\ pending' = SubSeq(pending, 1, Len(pending) - 1)
    /\ consumed' = consumed + 1
    /\ LET r == read(pending[Len(pending)].w) IN
       IF ~r.ok
       THEN pc' = "panic" /\ UNCHANGED <<cur, log>>
       ELSE /\ pc' = "idle" /\ cur' = NoCall
            /\ log' = Append(log, Done(cur, Ok(r.val), pending[Len(pending)].n,
                                       consumed + 1, connects, Len(cmds), streams))
    /\ UNCHANGED <<peerUp, arrived, cmds, connects, streams, codec, rest>>

\* ExternalEditorApi::read called directly returns the next answer.
read_return ==
    /\ pc = "read"
    /\ pending # <<>>
    /\ pending' = Tail(pending)
    /\ consumed' = consumed + 1
    /\ LET r == read(Head(pending).w) IN
       IF ~r.ok
       THEN pc' = "panic" /\ UNCHANGED <<cur, log>>
       ELSE /\ pc' = "idle" /\ cur' = NoCall
            /\ log' = Append(log, Done(cur, Ok(r.val), Head(pending).n,
                                       consumed + 1, connects, Len(cmds), streams))
    /\ UNCHANGED <<peerUp, arrived, cmds, connects, streams, codec, rest>>

\* The game: it connects to the listener, writes one payload of the set S
\* and closes.
Emit(S) == \E w \in S :
    /\ peerUp
    /\ pc # "panic"
    /\ Len(arrived) < MaxEvents
    /\ arrived' = Append(arrived, w)
    /\ pending' = Append(pending, [n |-> Len(arrived) + 1, w |-> w])
    /\ UNCHANGED <<peerUp, consumed, cmds, connects, streams, pc, cur, log, codec, rest>>

PeerEmit == Emit(EventPayloads)

\* A game session is started or closed.
PeerStart ==
    /\ ~peerUp
    /\ peerUp' = TRUE
    /\ UNCHANGED <<arrived, pending, consumed, cmds, connects, streams, pc, cur, log, codec, rest>>

PeerStop ==
    /\ peerUp
    /\ peerUp' = FALSE
    /\ UNCHANGED <<arrived, pending, consumed, cmds, connects, streams, pc, cur, log, codec, rest>>

NotDecoded == [ok |-> FALSE, err |-> "not decoded"]

Threads == {1, 2}

Clients == {1, 2}

NoConn == [n |-> 0]

\* No inbound connection has been made and no read has been called.
BytesIdle ==
    /\ sconns = <<>>
    /\ saccepted = 0
    /\ rbuf = 0
    /\ rpc = "idle"
    /\ srets = <<>>

\* No thread has called the API.
ThreadsIdle ==
    /\ tpc = [t \in Threads |-> "idle"]
    /\ twant = [t \in Threads |-> "none"]
    /\ tstream = [t \in Threads |-> NoConn]
    /\ tseen = [t \in Threads |-> {}]
    /\ tgot = [t \in Threads |-> <<>>]

\* Client 1 holds the listener of the inbound address.
ClientBound == client = [c \in Clients |-> IF c = 1 THEN "bound" ELSE "none"]

EncoderIdle ==
    /\ msg = [tag |-> "none"]
    /\ encoded = <<>>

NotNarrowed == [ok |-> FALSE, err |-> [error |-> "none"]]

NarrowIdle ==
    /\ nin = [tag |-> "none"]
    /\ nT = "none"
    /\ nout = NotNarrowed

\* No run of a call has been set up.
NotReturned == [ok |-> FALSE, err |-> "running"]

NoRun == [pc |-> "none", trace |-> <<>>, taken |-> 0, buf |-> NotJson,
          ans |-> [tag |-> "none"], ret |-> NotReturned]

RunsIdle ==
    /\ rin = [call |-> [op |-> "none"]]
    /\ rarrived = <<>>
    /\ sy = NoRun
    /\ ay = NoRun

\* The tool has not been started.
CliIdle ==
    /\ objects = <<>>
    /\ fsys = [path |-> "missing", files |-> {}, readable |-> FALSE, save |-> <<>>]
    /\ args = [op |-> "none"]
    /\ cpc = "exit"
    /\ cloc = [site |-> "none"]
    /\ csent = <<>>
    /\ cres = NotReturned

\* The harnesses at rest.
Quiet ==
    /\ BytesIdle
    /\ ThreadsIdle
    /\ ClientBound
    /\ EncoderIdle
    /\ NarrowIdle
    /\ RunsIdle
    /\ CliIdle

\* The state after ExternalEditorApi::new(): the listener is bound and
\* nothing has arrived.
Fresh ==
    /\ arrived = <<>>
    /\ pending = <<>>
    /\ consumed = 0
    /\ cmds = <<>>
    /\ connects = 0
    /\ pc = "idle"
    /\ cur = NoCall
    /\ log = <<>>
    /\ streams = [opened |-> 0, flushed |-> 0, closed |-> 0]

Init ==
    /\ peerUp \in BOOLEAN
    /\ Fresh
    /\ Quiet
    /\ wire = NotJson
    /\ decoded = NotDecoded
    /\ readOut = NotDecoded

Next ==
    \/ get_scripts
    \/ reload
    \/ custom_message
    \/ execute
    \/ execute_on_object
    \/ wait_call
    \/ read_call
    \/ wait
    \/ read_return
    \/ PeerEmit
    \/ PeerStart
    \/ PeerStop

Spec == Init /\ [][Next]_vars

\* The waiter under fair scheduling.  The blocked caller goes on as soon as a
\* connection is queued: accept returns, so a turn of the loop that is
\* possible is taken.  The game emits a matching, a non-matching and an
\* undecodable payload.
LiveEvents == {EvPrint, EvReturn2, EvUnknownId}

PeerEmitLive == Emit(LiveEvents)

LiveNext ==
    \/ execute
    \/ get_scripts
    \/ wait_call
    \/ wait
    \/ PeerEmitLive
    \/ PeerStart
    \/ PeerStop

LiveSpec == Init /\ [][LiveNext]_vars /\ WF_vars(wait)

----------------------------------------------------------------------------
\* The codec on its own: one payload, drawn from WirePayloads, is decoded.

Texts == {<<"5">>, <<"2">>, <<"1", "0">>, <<"0", "5">>, <<"-", "1">>, <<"-">>,
          <<>>, <<" ", "5">>, <<"h", "e", "l", "l", "o">>, <<"h", "i">>,
          <<"n", "u", "l", "l">>, <<"t", "r", "u", "e">>,
          <<"f", "a", "l", "s", "e">>, <<"\"", "a", "b", "c", "\"">>,
          <<"\"", "a">>, <<"\"", "5", "\"">>}

IdValues == {Num(n) : n \in {-1, 0, 1, 2, 3, 4, 5, 6, 7, 8, 9, 255}}
            \cup {Str(<<"5">>), Null, Float(5, 5), Float(2, 0)}

RvValues == {Str(x) : x \in Texts}
            \cup {Null, Num(5), Bool(TRUE), Arr(<<>>), Obj([a |-> Num(1)])}

AllKeys == {"messageID", "scriptStates", "savePath", "message", "error", "guid",
            "errorMessagePrefix", "customMessage", "returnID", "returnValue"}

FieldValue(k, id, rv) ==
    CASE k = "messageID" -> id
      [] k = "returnValue" -> rv
      [] k = "returnID" -> Num(5)
      [] k \in {"scriptStates", "customMessage"} -> Arr(<<>>)
      [] OTHER -> Str(<<"x">>)

Drops == {{}} \cup {{k} : k \in AllKeys}

WirePayloads ==
    {NotJson, [json |-> TRUE, val |-> Num(5)], [json |-> TRUE, val |-> Arr(<<>>)]}
    \cup {W([k \in AllKeys \ drop |-> FieldValue(k, id, rv)]) :
            id \in IdValues, rv \in RvValues, drop \in Drops}

CodecInit ==
    /\ peerUp = FALSE
    /\ Fresh
    /\ Quiet
    /\ wire \in WirePayloads
    /\ decoded = NotDecoded
    /\ readOut = NotDecoded

\* read on a connection that carries the payload wire.
Decode ==
    /\ decoded = NotDecoded
    /\ decoded' = AnswerDeserialize(wire)
    /\ readOut' = read(wire)
    /\ UNCHANGED <<peerUp, arrived, pending, consumed, cmds, connects, streams,
                   pc, cur, log, wire, rest>>

CodecNext == Decode

CodecSpec == CodecInit /\ [][CodecNext]_vars

-----------------------------------------------------------------------------
\* The byte view of read: a connection is a stream the game writes in chunks
\* and then closes.  The reader accepts one connection and read_to_string
\* fills the buffer until the end of the stream; only then is the buffer
\* decoded.

protocol == <<peerUp, arrived, pending, consumed, cmds, connects, streams,
              pc, cur, log>>

\* The number of chunks a payload is written in.
MaxChunks == 2

BytePayloads == {EvPrint, EvReturn2, EvUnknownId}

\* The text of the first k chunks of payload w.  A proper prefix of the text
\* of a JSON object lacks the closing brace, so it is no JSON text.
Assemble(w, k) == IF k = MaxChunks THEN w ELSE NotJson

GameConnect ==
    /\ Len(sconns) < MaxEvents
    /\ \E w \in BytePayloads :
        sconns' = Append(sconns, [w |-> w, sent |-> 0, closed |-> FALSE])
    /\ UNCHANGED <<saccepted, rbuf, rpc, srets>>
    /\ UNCHANGED <<protocol, codec, narrow, runs, cli, threads, client, encoder>>

GameWrite ==
    /\ \E i \in 1..Len(sconns) :
        /\ ~sconns[i].closed
        /\ sconns[i].sent < MaxChunks
        /\ sconns' = [sconns EXCEPT ![i].sent = @ + 1]
    /\ UNCHANGED <<saccepted, rbuf, rpc, srets>>
    /\ UNCHANGED <<protocol, codec, narrow, runs, cli, threads, client, encoder>>

\* The game closes a connection, after the whole payload or before.
GameClose ==
    /\ \E i \in 1..Len(sconns) :
        /\ ~sconns[i].closed
        /\ sconns' = [sconns EXCEPT ![i].closed = TRUE]
    /\ UNCHANGED <<saccepted, rbuf, rpc, srets>>
    /\ UNCHANGED <<protocol, codec, narrow, runs, cli, threads, client, encoder>>

\* read is called, by a caller that goes on after a panic as well (the
\* listener is not poisoned by an unwinding read).
read_enter ==
    /\ rpc \in {"idle", "panic"}
    /\ Len(srets) < MaxCalls
    /\ rpc' = "accept"
    /\ UNCHANGED <<sconns, saccepted, rbuf, srets>>
    /\ UNCHANGED <<protocol, codec, narrow, runs, cli, threads, client, encoder>>

\* self.listener.accept().unwrap(): blocks until a connection is queued and
\* takes the oldest one.
accept ==
    /\ rpc = "accept"
    /\ saccepted < Len(sconns)
    /\ saccepted' = saccepted + 1
    /\ rbuf' = 0
    /\ rpc' = "read"
    /\ UNCHANGED <<sconns, srets>>
    /\ UNCHANGED <<protocol, codec, narrow, runs, cli, threads, client, encoder>>

\* The end of a read call: the record of what it accepted, how much it had
\* read and what it gave.
Returned(r) ==
    /\ srets' = Append(srets, [n |-> saccepted, len |-> rbuf', res |-> r])
    /\ rpc' = IF r.ok THEN "idle" ELSE "panic"

\* A read_to_string that decodes its buffer after every chunk and gives up
\* on the first buffer that does not decode.
read_to_string_eager ==
    /\ rpc = "read"
    /\ LET c == sconns[saccepted] IN
        IF rbuf < c.sent
        THEN /\ rbuf' = c.sent
             /\ IF read(Assemble(c.w, c.sent)).ok
                THEN UNCHANGED <<rpc, srets>>
                ELSE Returned(read(Assemble(c.w, c.sent)))
        ELSE /\ c.closed
             /\ rbuf' = rbuf
             /\ Returned(read(Assemble(c.w, rbuf)))
    /\ UNCHANGED <<sconns, saccepted>>
    /\ UNCHANGED <<protocol, codec, narrow, runs, cli, threads, client, encoder>>

\* A read_to_string that returns after the first chunks it gets.
read_to_string_once ==
    /\ rpc = "read"
    /\ LET c == sconns[saccepted] IN
        IF rbuf < c.sent
        THEN /\ rbuf' = c.sent
             /\ Returned(read(Assemble(c.w, c.sent)))
        ELSE /\ c.closed
             /\ rbuf' = rbuf
             /\ Returned(read(Assemble(c.w, rbuf)))
    /\ UNCHANGED <<sconns, saccepted>>
    /\ UNCHANGED <<protocol, codec, narrow, runs, cli, threads, client, encoder>>

\* stream.read_to_string(&mut buffer).unwrap() and the decoding after it:
\* what the game has written goes into the buffer; at the end of the stream
\* the buffer is decoded, and read returns the event or panics.
read_to_string ==
    /\ rpc = "read"
    /\ LET c == sconns[saccepted] IN
        IF rbuf < c.sent
        THEN /\ rbuf' = c.sent
             /\ UNCHANGED <<rpc, srets>>
        ELSE /\ c.closed
             /\ rbuf' = rbuf
             /\ Returned(read(Assemble(c.w, rbuf)))
    /\ UNCHANGED <<sconns, saccepted>>
    /\ UNCHANGED <<protocol, codec, narrow, runs, cli, threads, client, encoder>>

ByteInit ==
    /\ peerUp = TRUE
    /\ Fresh
    /\ wire = NotJson
    /\ decoded = NotDecoded
    /\ readOut = NotDecoded
    /\ Quiet

ByteNext ==
    \/ GameConnect
    \/ GameWrite
    \/ GameClose
    \/ read_enter
    \/ accept
    \/ read_to_string

ByteSpec == ByteInit /\ [][ByteNext]_vars

-----------------------------------------------------------------------------
\* Two threads that share one ExternalEditorApi: read and wait take &self
\* and the listener is shared, so their accepts interleave.

ThreadWants == {"any", "AnswerPrint", "AnswerReturn"}

\* Thread t calls read (want "any") or wait::<T>.
thread_call(t) ==
    /\ tpc[t] = "idle"
    /\ Len(tgot[t]) < MaxCalls
    /\ \E T \in ThreadWants : twant' = [twant EXCEPT ![t] = T]
    /\ tpc' = [tpc EXCEPT ![t] = "accept"]
    /\ UNCHANGED <<tstream, tseen, tgot>>
    /\ UNCHANGED <<protocol, codec, narrow, runs, cli, bytes, client, encoder>>

\* An accept that leaves the connection in the queue.
thread_accept_peek(t) ==
    /\ tpc[t] = "accept"
    /\ pending # <<>>
    /\ tstream' = [tstream EXCEPT ![t] = Head(pending)]
    /\ tseen' = [tseen EXCEPT ![t] = @ \cup {Head(pending).n}]
    /\ tpc' = [tpc EXCEPT ![t] = "read"]
    /\ UNCHANGED <<pending, consumed>>
    /\ UNCHANGED <<twant, tgot>>
    /\ UNCHANGED <<peerUp, arrived, cmds, connects, streams, pc, cur, log>>
    /\ UNCHANGED <<codec, narrow, runs, cli, bytes, client, encoder>>

\* self.listener.accept() in thread t: the oldest queued connection goes to
\* the thread that accepts first.
thread_accept(t) ==
    /\ tpc[t] = "accept"
    /\ pending # <<>>
    /\ tstream' = [tstream EXCEPT ![t] = Head(pending)]
    /\ tseen' = [tseen EXCEPT ![t] = @ \cup {Head(pending).n}]
    /\ tpc' = [tpc EXCEPT ![t] = "read"]
    /\ pending' = Tail(pending)
    /\ consumed' = consumed + 1
    /\ UNCHANGED <<twant, tgot>>
    /\ UNCHANGED <<peerUp, arrived, cmds, connects, streams, pc, cur, log>>
    /\ UNCHANGED <<codec, narrow, runs, cli, bytes, client, encoder>>

\* A waiter that puts an answer it does not want back for the others.
thread_read_requeue(t) ==
    /\ tpc[t] = "read"
    /\ LET r == read(tstream[t].w) IN
       IF ~r.ok
       THEN /\ tpc' = [tpc EXCEPT ![t] = "panic"]
            /\ UNCHANGED <<tgot, pending, consumed>>
       ELSE LET m == IF twant[t] = "any" THEN Ok(r.val)
                     ELSE try_from(twant[t], r.val) IN
            IF m.ok
            THEN /\ tpc' = [tpc EXCEPT ![t] = "idle"]
                 /\ tgot' = [tgot EXCEPT ![t] =
                                Append(@, [n |-> tstream[t].n, want |-> twant[t],
                                           res |-> m])]
                 /\ UNCHANGED <<pending, consumed>>
            ELSE /\ tpc' = [tpc EXCEPT ![t] = "accept"]
                 /\ pending' = <<tstream[t]>> \o pending
                 /\ consumed' = consumed - 1
                 /\ UNCHANGED tgot
    /\ tstream' = [tstream EXCEPT ![t] = NoConn]
    /\ UNCHANGED <<twant, tseen>>
    /\ UNCHANGED <<peerUp, arrived, cmds, connects, streams, pc, cur, log>>
    /\ UNCHANGED <<codec, narrow, runs, cli, bytes, client, encoder>>

\* The rest of read in thread t and, in a wait, the narrowing that follows:
\* the accepted connection is read and decoded; read returns the answer, wait
\* returns it when it narrows to T and else drops it and accepts again.
thread_read(t) ==
    /\ tpc[t] = "read"
    /\ LET r == read(tstream[t].w) IN
       IF ~r.ok
       THEN /\ tpc' = [tpc EXCEPT ![t] = "panic"]
            /\ UNCHANGED tgot
       ELSE LET m == IF twant[t] = "any" THEN Ok(r.val)
                     ELSE try_from(twant[t], r.val) IN
            IF m.ok
            THEN /\ tpc' = [tpc EXCEPT ![t] = "idle"]
                 /\ tgot' = [tgot EXCEPT ![t] =
                                Append(@, [n |-> tstream[t].n, want |-> twant[t],
                                           res |-> m])]
            ELSE /\ tpc' = [tpc EXCEPT ![t] = "accept"]
                 /\ UNCHANGED tgot
    /\ tstream' = [tstream EXCEPT ![t] = NoConn]
    /\ UNCHANGED <<pending, consumed>>
    /\ UNCHANGED <<twant, tseen>>
    /\ UNCHANGED <<peerUp, arrived, cmds, connects, streams, pc, cur, log>>
    /\ UNCHANGED <<codec, narrow, runs, cli, bytes, client, encoder>>

ThreadInit ==
    /\ peerUp = TRUE
    /\ Fresh
    /\ wire = NotJson
    /\ decoded = NotDecoded
    /\ readOut = NotDecoded
    /\ Quiet

ThreadNext ==
    \/ \E t \in Threads : thread_call(t)
    \/ \E t \in Threads : thread_accept(t)
    \/ \E t \in Threads : thread_read(t)
    \/ PeerEmitLive

ThreadSpec == ThreadInit /\ [][ThreadNext]_vars

-----------------------------------------------------------------------------
\* The encoder alone: Message::serialize on messages whose fields, all of
\* them public, hold any content.

EncValues == {Null, Num(0), Str(<<"h", "i">>), Arr(<<>>),
              Obj([foo |-> Str(<<"F">>)]), Obj([messageID |-> Num(9)])}

EncTexts == {<<>>, <<"-", "1">>, <<"g">>, <<"r">>}

EncIds == {0, 5, 7}

Messages ==
    {MessageGetScripts_new}
    \cup {MessageReload_new(v) : v \in EncValues}
    \cup {MessageCustomMessage_new(v) : v \in EncValues}
    \cup {[tag |-> "MessageExecute",
           body |-> [return_id |-> r, guid |-> g, script |-> c]] :
              r \in EncIds, g \in EncTexts, c \in EncTexts}

EncodeInit ==
    /\ peerUp = FALSE
    /\ Fresh
    /\ wire = NotJson
    /\ decoded = NotDecoded
    /\ readOut = NotDecoded
    /\ BytesIdle
    /\ ThreadsIdle
    /\ ClientBound
    /\ NarrowIdle
    /\ RunsIdle
    /\ CliIdle
    /\ msg \in Messages
    /\ encoded = <<>>

\* serde_json::to_string(&message) in send.
Encode ==
    /\ encoded = <<>>
    /\ encoded' = MessageSerialize(msg)
    /\ UNCHANGED <<protocol, codec, narrow, runs, cli, bytes, threads, client, msg>>

EncodeNext == Encode

EncodeSpec == EncodeInit /\ [][EncodeNext]_vars

-----------------------------------------------------------------------------
\* The narrowings alone: T::try_from on every Answer the decoder yields and
\* on every Message, for every T that has the impl.

MessageTags == {"MessageGetScripts", "MessageReload", "MessageCustomMessage",
                "MessageExecute"}

\* The answers that the payloads of the codec harness decode to.
Answers == {AnswerDeserialize(w).val :
                w \in {x \in WirePayloads : AnswerDeserialize(x).ok}}

NarrowInit ==
    /\ peerUp = FALSE
    /\ Fresh
    /\ wire = NotJson
    /\ decoded = NotDecoded
    /\ readOut = NotDecoded
    /\ BytesIdle
    /\ ThreadsIdle
    /\ ClientBound
    /\ EncoderIdle
    /\ RunsIdle
    /\ CliIdle
    /\ \/ nin \in Answers /\ nT \in AnswerTypes
       \/ nin \in Messages /\ nT \in MessageTags
    /\ nout = NotNarrowed

\* T::try_from(answer)
NarrowAnswer ==
    /\ nout = NotNarrowed
    /\ nT \in AnswerTypes
    /\ nout' = try_from(nT, nin)
    /\ UNCHANGED <<protocol, codec, runs, cli, bytes, threads, client, encoder, nin, nT>>

\* T::try_from(message)
NarrowMessage ==
    /\ nout = NotNarrowed
    /\ nT \in MessageTags
    /\ nout' = message_try_from(nT, nin)
    /\ UNCHANGED <<protocol, codec, runs, cli, bytes, threads, client, encoder, nin, nT>>

NarrowNext ==
    \/ NarrowAnswer
    \/ NarrowMessage

NarrowSpec == NarrowInit /\ [][NarrowNext]_vars

-----------------------------------------------------------------------------
\* Clients of the inbound address 127.0.0.1:39998.  A client is a process
\* that calls ExternalEditorApi::new; the listener and its queue of
\* connections exist from the bind until the struct is dropped.

Holders == {c \in Clients : client[c] = "bound"}

\* A constructor whose bind shares an address that is in use.
new_reuse(c) ==
    /\ client[c] = "none"
    /\ client' = [client EXCEPT ![c] = "bound"]
    /\ pending' = IF Holders = {} THEN <<>> ELSE pending
    /\ UNCHANGED <<peerUp, arrived, consumed, cmds, connects, streams, pc, cur, log>>
    /\ UNCHANGED <<codec, narrow, runs, cli, bytes, threads, encoder>>

\* ExternalEditorApi::new: TcpListener::bind(..).unwrap().  The bind fails
\* while another listener holds the address and the unwrap panics; else the
\* client holds a new listener with an empty queue.
new(c) ==
    /\ client[c] = "none"
    /\ IF Holders # {}
       THEN client' = [client EXCEPT ![c] = "panic"] /\ pending' = pending
       ELSE client' = [client EXCEPT ![c] = "bound"] /\ pending' = <<>>
    /\ UNCHANGED <<peerUp, arrived, consumed, cmds, connects, streams, pc, cur, log>>
    /\ UNCHANGED <<codec, narrow, runs, cli, bytes, threads, encoder>>

\* The client's ExternalEditorApi is dropped: the listener is closed and
\* the connections still queued on it are lost.
drop(c) ==
    /\ client[c] = "bound"
    /\ client' = [client EXCEPT ![c] = "none"]
    /\ pending' = <<>>
    /\ UNCHANGED <<peerUp, arrived, consumed, cmds, connects, streams, pc, cur, log>>
    /\ UNCHANGED <<codec, narrow, runs, cli, bytes, threads, encoder>>

\* The process whose constructor panicked is gone.
exit(c) ==
    /\ client[c] = "panic"
    /\ client' = [client EXCEPT ![c] = "none"]
    /\ UNCHANGED <<protocol, codec, narrow, runs, cli, bytes, threads, encoder>>

\* The holder of the listener accepts its oldest connection.
client_read(c) ==
    /\ client[c] = "bound"
    /\ pending # <<>>
    /\ pending' = Tail(pending)
    /\ consumed' = consumed + 1
    /\ UNCHANGED <<peerUp, arrived, cmds, connects, streams, pc, cur, log>>
    /\ UNCHANGED <<codec, narrow, runs, cli, bytes, threads, client, encoder>>

\* The game reaches a listener only while one is bound.
GameEmit ==
    /\ Holders # {}
    /\ PeerEmitLive

BindInit ==
    /\ peerUp = TRUE
    /\ Fresh
    /\ wire = NotJson
    /\ decoded = NotDecoded
    /\ readOut = NotDecoded
    /\ BytesIdle
    /\ ThreadsIdle
    /\ EncoderIdle
    /\ NarrowIdle
    /\ RunsIdle
    /\ CliIdle
    /\ client = [c \in Clients |-> "none"]

BindNext ==
    \/ \E c \in Clients : new(c)
    \/ \E c \in Clients : drop(c)
    \/ \E c \in Clients : exit(c)
    \/ \E c \in Clients : client_read(c)
    \/ GameEmit

BindSpec == BindInit /\ [][BindNext]_vars

----------------------------------------------------------------------------
\* Properties.

\* The variant a payload decodes to.
VariantOf(w) ==
    LET r == AnswerDeserialize(w) IN IF r.ok THEN r.val.tag ELSE "undecodable"

BodyOf(w) == AnswerDeserialize(w).val.body

\* A completed call that returned an event it waited for.
Waited(e) == e.want \in AnswerTypes /\ e.res.ok

\* The fields of each event type.
BodyFields(T) ==
    CASE T = "AnswerNewObject" -> {"script_states"}
      [] T = "AnswerReload" -> {"save_path", "script_states"}
      [] T = "AnswerPrint" -> {"message"}
      [] T = "AnswerError" -> {"error", "guid", "error_message_prefix"}
      [] T = "AnswerCustomMessage" -> {"custom_message"}
      [] T = "AnswerReturn" -> {"return_id", "return_value"}
      [] T = "AnswerGameSaved" -> {"saved"}
      [] T = "AnswerObjectCreated" -> {"guid"}

\* C1 (skip property): a wait for variant V returns the first event of
\* variant V in arrival order among the events not accepted before the call;
\* every event that arrived before the returned one has left the listener's
\* queue, and no call that completes later returns one of them.
C1_SkipProperty ==
    \A i \in 1..Len(log) :
        LET e == log[i] IN
        Waited(e) =>
            /\ e.idx \in (e.from + 1)..Len(arrived)
            /\ VariantOf(arrived[e.idx]) = e.want
            /\ e.res.val = BodyOf(arrived[e.idx])
            /\ \A j \in (e.from + 1)..(e.idx - 1) : VariantOf(arrived[j]) # e.want
            /\ \A k \in 1..Len(pending) : pending[k].n > e.idx
            /\ \A k \in (i + 1)..Len(log) : log[k].idx = 0 \/ log[k].idx > e.idx

\* A wait for ReturnValue has skipped a Printed event and returned; the
\* wait for Printed that follows finds the queue empty and is blocked.
C1_Witness ==
    /\ Len(log) = 1
    /\ log[1].op = "wait" /\ log[1].want = "AnswerReturn"
    /\ log[1].from = 0 /\ log[1].idx = 2
    /\ arrived[1] = EvPrint
    /\ pc = "wait" /\ cur.want = "AnswerPrint"
    /\ pending = <<>>

\* C2 (FIFO): when the calls made so far are all waits for the same variant
\* V and all returned, the i-th of them returned the i-th event of variant V
\* in arrival order.
C2_Fifo ==
    \A i \in 1..Len(log) :
        (\A k \in 1..i : Waited(log[k]) /\ log[k].want = log[i].want) =>
            LET V == log[i].want
                n == log[i].idx
            IN  /\ n \in 1..Len(arrived)
                /\ VariantOf(arrived[n]) = V
                /\ Cardinality({j \in 1..n : VariantOf(arrived[j]) = V}) = i
                /\ log[i].res.val = BodyOf(arrived[n])

\* ReturnValue(A) arrived before ReturnValue(B) and two waits returned A then B.
C2_Witness ==
    /\ Len(log) = 2
    /\ log[1].op = "wait" /\ log[2].op = "wait"
    /\ log[1].want = "AnswerReturn" /\ log[2].want = "AnswerReturn"
    /\ log[1].res = Ok([return_id |-> 5, return_value |-> Num(2)])
    /\ log[2].res = Ok([return_id |-> 7, return_value |-> Str(<<"h", "i">>)])

\* The waiter can return: an event of the awaited variant is queued and
\* every payload queued before it decodes.
CanReturn ==
    /\ pc = "wait"
    /\ \E k \in 1..Len(pending) :
        /\ VariantOf(pending[k].w) = cur.want
        /\ \A j \in 1..k : VariantOf(pending[j].w) # "undecodable"

\* C3 (liveness): once an event of the awaited variant has arrived behind
\* payloads that all decode, the wait in progress returns.
C3_WaitReturns == CanReturn ~> (pc = "idle")

\* A wait has returned after it had to go through the loop twice.
C3_Witness ==
    \E i \in 1..Len(log) :
        /\ log[i].op = "wait" /\ log[i].res.ok
        /\ log[i].upto = log[i].from + 2

\* C4: a wait for variant V returns only a value of variant V, and only one
\* decoded from a V event that was accepted during the call; without such an
\* event it does not return, however many other events it accepts.
C4_ReturnsOnlyV ==
    /\ \A i \in 1..Len(log) :
        LET e == log[i] IN
        Waited(e) =>
            /\ DOMAIN e.res.val = BodyFields(e.want)
            /\ e.upto > e.from
            /\ e.upto <= consumed
            /\ VariantOf(arrived[e.upto]) = e.want
            /\ e.res.val = BodyOf(arrived[e.upto])
            /\ \E j \in (e.from + 1)..e.upto : VariantOf(arrived[j]) = e.want
    /\ pc = "wait" =>
        \A j \in (cur.from + 1)..consumed : VariantOf(arrived[j]) # cur.want

\* A wait is still blocked after it accepted every event of a stream without
\* a matching one.
C4_Witness ==
    /\ pc = "wait" /\ cur.op = "wait" /\ cur.want = "AnswerNewObject"
    /\ cur.from = 0
    /\ consumed = MaxEvents
    /\ pending = <<>>

FacadeOps == {"get_scripts", "reload", "custom_message", "execute",
              "execute_on_object"}

\* C5: a facade call made while nothing listens on the command port makes
\* one connect attempt and returns the connect error in that same step: it
\* does not wait, accepts no inbound connection and sends nothing.
C5_ConnectError ==
    [][(pc = "idle" /\ ~peerUp /\ connects' # connects) =>
          /\ connects' = connects + 1
          /\ pc' = "idle"
          /\ Len(log') = Len(log) + 1
          /\ log'[Len(log')].op \in FacadeOps
          /\ log'[Len(log')].res = Err("io")
          /\ consumed' = consumed
          /\ pending' = pending
          /\ cmds' = cmds]_vars

\* get_scripts has returned the connect error while an event was queued.
C5_Witness ==
    \E i \in 1..Len(log) :
        /\ log[i].op = "get_scripts"
        /\ log[i].res = Err("io")
        /\ log[i].c1 = log[i].c0 + 1
        /\ log[i].upto = log[i].from
        /\ pending # <<>>

\* The messageID each facade function puts on the wire.
CommandId(op) ==
    CASE op = "get_scripts" -> 0
      [] op = "reload" -> 1
      [] op = "custom_message" -> 2
      [] op \in {"execute", "execute_on_object"} -> 3

\* C6 as stated: every facade function, custom_message included, returns
\* only once an event of its response variant has been received.
C6_Original ==
    \A i \in 1..Len(log) :
        (log[i].op \in FacadeOps /\ log[i].res.ok) =>
            (log[i].idx > 0 /\ log[i].upto > log[i].from)

\* C6 amended: get_scripts, reload, execute and execute_on_object send their
\* command and then wait for Reloaded, Reloaded, ReturnValue and ReturnValue
\* and return that event's payload; custom_message returns Ok(()) right after
\* the send and waits for nothing.
C6_SendThenWait ==
    /\ \A i \in 1..Len(log) :
        LET e == log[i] IN
        (e.op \in FacadeOps /\ e.res.ok) =>
            /\ e.n1 = e.n0 + 1
            /\ cmds[e.n1][1] = <<"messageID", Num(CommandId(e.op))>>
            /\ e.op \in {"get_scripts", "reload"} => e.want = "AnswerReload"
            /\ e.op \in {"execute", "execute_on_object"} => e.want = "AnswerReturn"
            /\ e.op # "custom_message" =>
                /\ e.idx > e.from
                /\ VariantOf(arrived[e.idx]) = e.want
                /\ e.res.val = BodyOf(arrived[e.idx])
            /\ e.op = "custom_message" =>
                e.res = Ok(<<>>) /\ e.idx = 0 /\ e.upto = e.from
    /\ (pc = "wait" /\ cur.op \in FacadeOps) =>
        /\ cur.op # "custom_message"
        /\ Len(cmds) = cur.n0 + 1
        /\ cmds[Len(cmds)][1] = <<"messageID", Num(CommandId(cur.op))>>

\* execute has returned a ReturnValue and custom_message has returned with
\* that many events still queued.
C6_Witness ==
    /\ Len(log) = 2
    /\ log[1].op = "execute" /\ log[1].res.ok /\ log[1].idx = 1
    /\ log[2].op = "custom_message" /\ log[2].res.ok
    /\ pending # <<>>

\* C7: when execute has sent Execute{returnID 5, guid "-1", script} and the
\* event it returns was decoded from ReturnValue{returnID 5, returnValue "2"},
\* its return_value is the number 2 and not the string "2".
C7_ExecuteReturnsNumber ==
    \A i \in 1..Len(log) :
        LET e == log[i] IN
        (e.op = "execute" /\ e.res.ok /\ arrived[e.idx] = EvReturn2) =>
            /\ \E script \in Scripts :
                cmds[e.n1] = <<<<"messageID", Num(3)>>, <<"returnID", Num(5)>>,
                               <<"guid", Str(<<"-", "1">>)>>,
                               <<"script", Str(script)>>>>
            /\ e.res.val.return_id = 5
            /\ e.res.val.return_value = Num(2)
            /\ e.res.val.return_value # Str(<<"2">>)

\* execute has returned the answer decoded from ReturnValue{5, "2"}.
C7_Witness ==
    \E i \in 1..Len(log) :
        /\ log[i].op = "execute" /\ log[i].res.ok
        /\ arrived[log[i].idx] = EvReturn2

\* A payload with messageID 5 and a returnID.
IsReturnPayload(w) ==
    /\ w.json
    /\ has(w.val, "messageID") /\ w.val.v["messageID"] = Num(5)
    /\ has(w.val, "returnID")

\* C8: a ReturnValue payload decodes; its returnValue "5" gives the number 5
\* (and "2", "10", "-1" the numbers 2, 10, -1), a returnValue that is not
\* JSON such as "hello" gives that string unchanged, and an absent returnValue
\* gives null.
C8_TwoStage ==
    (decoded # NotDecoded /\ IsReturnPayload(wire)) =>
        /\ decoded.ok
        /\ decoded.val.tag = "AnswerReturn"
        /\ LET out == decoded.val.body.return_value
               o == wire.val
           IN  /\ ~has(o, "returnValue") => out = Null
               /\ has(o, "returnValue") =>
                    LET rv == o.v["returnValue"] IN
                    /\ rv = Str(<<"5">>) => out = Num(5)
                    /\ rv = Str(<<"2">>) => out = Num(2)
                    /\ rv = Str(<<"1", "0">>) => out = Num(10)
                    /\ rv = Str(<<"-", "1">>) => out = Num(0 - 1)
                    /\ rv \in {Str(<<"h", "e", "l", "l", "o">>), Str(<<"h", "i">>),
                               Str(<<"0", "5">>), Str(<<"-">>), Str(<<>>),
                               Str(<<"\"", "a">>)} => out = rv

\* A ReturnValue whose returnValue is "hello" has been decoded.
C8_Witness ==
    /\ decoded.ok
    /\ IsReturnPayload(wire)
    /\ has(wire.val, "returnValue")
    /\ wire.val.v["returnValue"] = Str(<<"h", "e", "l", "l", "o">>)
    /\ decoded.val.body.return_value = Str(<<"h", "e", "l", "l", "o">>)

\* A payload whose messageID is an integer outside 0..7.
IdOutOfRange(w) ==
    /\ w.json
    /\ has(w.val, "messageID")
    /\ w.val.v["messageID"].t = "num"
    /\ w.val.v["messageID"].v \notin 0..7

\* C9 as stated: decoding a payload whose messageID is outside 0..7 ends in
\* an error value that reaches the caller of read.
C9_Original ==
    (decoded # NotDecoded /\ IdOutOfRange(wire)) =>
        (~readOut.ok /\ readOut # Panic)

\* C9 amended: decoding a payload whose messageID is an integer outside 0..7
\* produces no event and no error value: Answer::deserialize panics, and the
\* panic unwinds through read.
C9_UnknownIdPanics ==
    (decoded # NotDecoded /\ IdOutOfRange(wire)) =>
        (decoded = Panic /\ readOut = Panic)

\* A payload with messageID 8 has been decoded.
C9_Witness ==
    /\ decoded # NotDecoded
    /\ IdOutOfRange(wire)
    /\ wire.val.v["messageID"] = Num(8)

\* C10 as stated: an accepted payload that does not decode makes the call
\* that accepted it return an error value to its caller.
C10_Original ==
    \A j \in 1..consumed :
        VariantOf(arrived[j]) = "undecodable" =>
            \E i \in 1..Len(log) : ~log[i].res.ok /\ log[i].upto = j

\* C10 amended: the waiter never yields an error, for a mismatch or for
\* anything else: the only error value a call returns is the connect error
\* of send; events that do not match are passed over; a payload that does not
\* decode aborts the wait at once by a panic, so that no error value reaches
\* the caller and nothing is accepted after it.
C10_WaitAbortsByPanic ==
    /\ \A i \in 1..Len(log) :
        ~log[i].res.ok => (log[i].res = Err("io") /\ log[i].upto = log[i].from)
    /\ pc = "wait" =>
        \A j \in (cur.from + 1)..consumed :
            VariantOf(arrived[j]) \notin {cur.want, "undecodable"}
    /\ \A j \in 1..consumed :
        VariantOf(arrived[j]) = "undecodable" => (pc = "panic" /\ j = consumed)

\* get_scripts passed over an event that did not match and was then aborted
\* by a payload that does not decode.
C10_Witness ==
    /\ pc = "panic"
    /\ cur.op = "get_scripts"
    /\ consumed = cur.from + 2
    /\ VariantOf(arrived[consumed]) = "undecodable"
    /\ VariantOf(arrived[consumed - 1]) = "AnswerPrint"


\* C11: a read whose decoding fails has read its connection to the end of
\* the stream: the game had closed it, every chunk written on it is in the
\* buffer, and the read calls before and after it took the connections
\* before and after it, so the next read starts on the next connection.
C11_FailedDecodeDrains ==
    \A i \in 1..Len(srets) :
        ~srets[i].res.ok =>
            /\ srets[i].n = i
            /\ sconns[i].closed
            /\ srets[i].len = sconns[i].sent
            /\ i < Len(srets) => srets[i + 1].n = i + 1

C11_Witness ==
    /\ Len(srets) = 2
    /\ srets[1].res = Panic
    /\ sconns[1].w = EvUnknownId
    /\ srets[1].len = MaxChunks
    /\ srets[2].res.ok
    /\ srets[2].n = 2


\* C17: every read call accepts exactly one connection, the next one in
\* arrival order, and a read that returns an event returns it after the
\* game closed that connection, decoded from all the chunks of the payload
\* and never from fewer; no read returns more connections than were made.
C17_ReadWholePayload ==
    /\ saccepted = Len(srets) + (IF rpc = "read" THEN 1 ELSE 0)
    /\ saccepted <= Len(sconns)
    /\ \A i \in 1..Len(srets) :
        srets[i].res.ok =>
            /\ srets[i].n = i
            /\ sconns[i].closed
            /\ srets[i].len = MaxChunks
            /\ srets[i].res = read(sconns[i].w)

C17_Witness ==
    /\ Len(srets) = 1
    /\ srets[1].res.ok
    /\ srets[1].res.val.tag = "AnswerPrint"
    /\ rpc = "accept"
    /\ saccepted = Len(sconns)



WaitingOps == {"get_scripts", "reload", "execute", "execute_on_object"}

\* The arrival number of the first event of variant T after arrival from, 0
\* when there is none.
FirstMatch(from, T) ==
    LET S == {j \in (from + 1)..Len(arrived) : VariantOf(arrived[j]) = T} IN
    IF S = {} THEN 0 ELSE CHOOSE j \in S : \A l \in S : j <= l

\* C12: a get_scripts, reload, execute or execute_on_object that returned an
\* event opened one outbound connection and closed it, and consumed k+1
\* inbound connections, k being the number of events before the first one
\* of its variant; everything that arrived later is still queued, in arrival
\* order, when the call returns, and the call after it starts from there.
C12_OneOutKPlusOneIn ==
    /\ Len(pending) = Len(arrived) - consumed
    /\ \A k \in 1..Len(pending) :
        pending[k] = [n |-> consumed + k, w |-> arrived[consumed + k]]
    /\ \A i \in 1..Len(log) :
        LET e == log[i]
            M == FirstMatch(e.from, e.want) IN
        (e.op \in WaitingOps /\ e.res.ok) =>
            /\ e.s1.opened = e.s0.opened + 1
            /\ e.s1.closed = e.s0.closed + 1
            /\ e.s1.opened = e.s1.closed
            /\ e.c1 = e.c0 + 1
            /\ M > e.from
            /\ e.idx = M
            /\ e.upto - e.from = (M - 1 - e.from) + 1
            /\ IF i < Len(log) THEN log[i + 1].from = e.upto
               ELSE IF pc = "idle" THEN consumed = e.upto
               ELSE cur.from = e.upto

\* An execute returned the ReturnValue that arrived first, over the one
\* outbound connection made so far, and the Printed event that arrived
\* behind it is still queued.
C12_Witness ==
    /\ Len(log) = 1
    /\ log[1].op = "execute" /\ log[1].res.ok
    /\ log[1].from = 0 /\ log[1].upto = 1
    /\ streams = [opened |-> 1, flushed |-> 1, closed |-> 1]
    /\ pending = <<[n |-> 2, w |-> EvPrint]>>



\* The arrival numbers thread t has returned from its calls.
ReturnedBy(t) == {tgot[t][i].n : i \in 1..Len(tgot[t])}

\* C13: nothing arbitrates between two threads that wait on the same
\* listener: a connection accepted by one thread is gone from the queue and
\* is never accepted by the other, also when the thread that accepted it
\* dropped it and the other one is waiting for just that variant.
C13_NoArbitration ==
    \A t \in Threads : \A u \in Threads \ {t} : \A n \in tseen[t] :
        /\ n \notin tseen[u]
        /\ n \notin ReturnedBy(u)
        /\ \A k \in 1..Len(pending) : pending[k].n # n

\* Thread 1 waits for a ReturnValue and thread 2 for a Printed event; the
\* one ReturnValue that arrived was accepted and dropped by thread 2, and
\* both threads are blocked in accept on an empty queue.
C13_Witness ==
    /\ twant[1] = "AnswerReturn" /\ tpc[1] = "accept"
    /\ twant[2] = "AnswerPrint" /\ tpc[2] = "accept"
    /\ arrived = <<EvReturn2>>
    /\ tseen[2] = {1} /\ tseen[1] = {}
    /\ tgot[2] = <<>>
    /\ pending = <<>>



\* What a call for T returns from the answer decoded from payload w.
Narrowed(T, w) == IF T = "any" THEN Ok(read(w).val) ELSE try_from(T, read(w).val)

\* C14: every event a read or wait returned, in either thread, is the
\* decoding of the payload of the one connection it was read from; no
\* connection is returned by two calls, of one thread or of two, and no
\* connection is accepted by both threads.
C14_AtMostOnce ==
    /\ tseen[1] \cap tseen[2] = {}
    /\ \A t \in Threads : \A i \in 1..Len(tgot[t]) :
        LET g == tgot[t][i] IN
        /\ g.n \in tseen[t]
        /\ g.res.ok
        /\ g.res = Narrowed(g.want, arrived[g.n])
        /\ \A u \in Threads : \A j \in 1..Len(tgot[u]) :
            (u # t \/ j # i) => tgot[u][j].n # g.n

\* Both threads have returned an event: the read of thread 2 the first
\* arrival and the wait of thread 1 the second.
C14_Witness ==
    /\ Len(tgot[1]) = 1 /\ tgot[1][1].n = 2
    /\ Len(tgot[2]) = 1 /\ tgot[2][1].n = 1
    /\ twant[1] = "AnswerPrint" /\ twant[2] = "any"
    /\ arrived = <<EvReturn2, EvPrint>>



\* A step in which the constructor of client c fails.
NewFails(c) == client[c] = "none" /\ client'[c] = "panic"

\* A step in which client c comes to hold the address.
Binds(c) == client[c] # "bound" /\ client'[c] = "bound"

\* C15: at any time at most one client holds the inbound address; a client
\* comes to hold it only by a constructor called while nobody holds it; a
\* constructor called while another client holds it panics, and that step
\* leaves the holder and the connections queued on its listener as they were.
C15_SingleInstance ==
    /\ [](Cardinality(Holders) <= 1)
    /\ [][\A c \in Clients :
            /\ Binds(c) => (client[c] = "none" /\ Holders = {})
            /\ NewFails(c) =>
                /\ Holders # {}
                /\ pending' = pending
                /\ \A d \in Clients \ {c} : client'[d] = client[d]]_vars

\* The constructor of client 2 has panicked while client 1 holds the
\* listener with two connections queued on it.
C15_Witness ==
    /\ client[1] = "bound"
    /\ client[2] = "panic"
    /\ Len(pending) = 2



\* The messages the facade builds.
FacadeMessages ==
    {MessageGetScripts_new}
    \cup {MessageReload_new(script_states) : script_states \in States}
    \cup {MessageCustomMessage_new(message) : message \in CustomMessages}
    \cup {MessageExecute_new(script) : script \in Scripts}
    \cup {MessageExecute_new_object(script, guid) :
              script \in Scripts, guid \in Guids}

\* C16: a step in which a command goes out sends one command, complete,
\* over a connection opened in that step, flushed and closed again before
\* the step ends; no outbound connection was open before it, and the step
\* accepts no inbound connection.  No outbound connection is ever left open.
C16_FreshConnectionPerSend ==
    /\ [](streams.opened = streams.closed /\ streams.flushed = Len(cmds))
    /\ [][(cmds' # cmds) =>
            /\ cmds' \in {Append(cmds, MessageSerialize(m)) : m \in FacadeMessages}
            /\ connects' = connects + 1
            /\ streams.closed = streams.opened
            /\ streams'.opened = streams.opened + 1
            /\ streams'.flushed = streams.flushed + 1
            /\ streams'.closed = streams'.opened
            /\ consumed' = consumed
            /\ pending' = pending]_vars

\* Two custom messages went out over two connections, both closed, while
\* an event sat unread in the queue.
C16_Witness ==
    /\ Len(cmds) = 2
    /\ Len(log) = 2
    /\ log[1].op = "custom_message" /\ log[2].op = "custom_message"
    /\ streams = [opened |-> 2, flushed |-> 2, closed |-> 2]
    /\ consumed = 0
    /\ Len(pending) = 1



\* C18: a read that returned took the arrival that followed the ones
\* accepted before it and returned the decoding of that arrival; when the
\* first n calls are all reads, the n-th of them returned the n-th arrival.
C18_ReadArrivalOrder ==
    \A i \in 1..Len(log) :
        LET e == log[i] IN
        e.op = "read" =>
            /\ e.idx = e.from + 1
            /\ e.upto = e.idx
            /\ e.res = Ok(read(arrived[e.idx]).val)
            /\ (\A j \in 1..i : log[j].op = "read") => e.idx = i

\* Two reads returned the ReturnValue and the Printed event in the order in
\* which they had arrived, both queued before the first read.
C18_Witness ==
    /\ Len(log) = 2
    /\ log[1].op = "read" /\ log[2].op = "read"
    /\ arrived = <<EvReturn2, EvPrint>>
    /\ log[1].res.val.tag = "AnswerReturn"
    /\ log[2].res.val.tag = "AnswerPrint"



\* The messageID of each variant of Message.
MessageId(tag) ==
    CASE tag = "MessageGetScripts" -> 0
      [] tag = "MessageReload" -> 1
      [] tag = "MessageCustomMessage" -> 2
      [] tag = "MessageExecute" -> 3

\* The entries that follow messageID, by variant.
MessageFields(message) ==
    CASE message.tag = "MessageGetScripts" -> <<>>
      [] message.tag = "MessageReload" ->
            <<<<"scriptStates", message.body.script_states>>>>
      [] message.tag = "MessageCustomMessage" ->
            <<<<"customMessage", message.body.custom_message>>>>
      [] message.tag = "MessageExecute" ->
            <<<<"returnID", Num(message.body.return_id)>>,
              <<"guid", Str(message.body.guid)>>,
              <<"script", Str(message.body.script)>>>>

\* C19: the encoding of a message is one map whose first entry is messageID
\* with the number of the variant, 0 to 3, whatever the fields hold, and
\* whose other entries are the fields of the variant, none, one, one and
\* three of them, each with the field's value; no other entry is named
\* messageID and none is named after the variant.
C19_FlatEncoding ==
    encoded # <<>> =>
        /\ encoded[1] = <<"messageID", Num(MessageId(msg.tag))>>
        /\ Cardinality({i \in 1..Len(encoded) : encoded[i][1] = "messageID"}) = 1
        /\ Len(encoded) = 1 + (CASE msg.tag = "MessageGetScripts" -> 0
                                 [] msg.tag = "MessageReload" -> 1
                                 [] msg.tag = "MessageCustomMessage" -> 1
                                 [] msg.tag = "MessageExecute" -> 3)
        /\ SubSeq(encoded, 2, Len(encoded)) = MessageFields(msg)
        /\ \A i \in 1..Len(encoded) : encoded[i][1] \notin MessageTags

\* A custom message whose payload has a messageID of its own is encoded
\* with messageID 2 and the payload as the value of customMessage.
C19_Witness ==
    /\ msg = MessageCustomMessage_new(Obj([messageID |-> Num(9)]))
    /\ encoded = <<<<"messageID", Num(2)>>,
                   <<"customMessage", Obj([messageID |-> Num(9)])>>>>



\* The variant assigned to each messageID.
AnswerOf(d) ==
    CASE d = 0 -> "AnswerNewObject"
      [] d = 1 -> "AnswerReload"
      [] d = 2 -> "AnswerPrint"
      [] d = 3 -> "AnswerError"
      [] d = 4 -> "AnswerCustomMessage"
      [] d = 5 -> "AnswerReturn"
      [] d = 6 -> "AnswerGameSaved"
      [] d = 7 -> "AnswerObjectCreated"

\* The wire names of the fields a payload of each variant must carry.
RequiredKeys(d) ==
    CASE d = 0 -> {"scriptStates"}
      [] d = 1 -> {"savePath", "scriptStates"}
      [] d = 2 -> {"message"}
      [] d = 3 -> {"error", "guid", "errorMessagePrefix"}
      [] d = 4 -> {"customMessage"}
      [] d = 5 -> {"returnID"}
      [] d = 6 -> {}
      [] d = 7 -> {"guid"}

\* The wire names of the fields of each variant.
OwnKeys(d) == IF d = 5 THEN {"returnID", "returnValue"} ELSE RequiredKeys(d)

\* A payload with a messageID in 0..7.
IdInRange(w) ==
    /\ w.json
    /\ has(w.val, "messageID")
    /\ w.val.v["messageID"].t = "num"
    /\ w.val.v["messageID"].v \in 0..7

\* Payload w without the entries that are not among keys.
Restrict(w, keys) ==
    W([k \in (DOMAIN w.val.v) \cap keys |-> w.val.v[k]])

\* C20: a payload with messageID d in 0..7 that carries the fields of the
\* variant assigned to d decodes to that variant; whatever a payload with
\* messageID d decodes to is that variant and no other; and the result is
\* the one the payload gives when all entries but messageID and the fields
\* of that variant are taken away.
C20_VariantByDiscriminant ==
    (decoded # NotDecoded /\ IdInRange(wire)) =>
        LET d == wire.val.v["messageID"].v IN
        /\ RequiredKeys(d) \subseteq DOMAIN wire.val.v =>
               (decoded.ok /\ decoded.val.tag = AnswerOf(d))
        /\ decoded.ok => decoded.val.tag = AnswerOf(d)
        /\ decoded = AnswerDeserialize(
                         Restrict(wire, {"messageID"} \cup OwnKeys(d)))

\* A payload with messageID 2 that carries the fields of every variant, a
\* returnID among them, has decoded to a Printed event.
C20_Witness ==
    /\ wire = W([k \in AllKeys |-> FieldValue(k, Num(2), Null)])
    /\ decoded.ok
    /\ decoded.val.tag = "AnswerPrint"



\* A step that puts a custom message on the wire.
CustomMessageSent ==
    /\ cmds' # cmds
    /\ cmds'[Len(cmds')][1] = <<"messageID", Num(2)>>

\* C21: the step in which custom_message sends its command is the step in
\* which it returns Ok(()): the caller is idle again, and the queue of the
\* listener, the arrivals and the number of accepted connections are what
\* they were before the step.
C21_CustomMessageNoWait ==
    [][CustomMessageSent =>
          /\ pc = "idle" /\ pc' = "idle"
          /\ log' = Append(log, log'[Len(log')])
          /\ log'[Len(log')].op = "custom_message"
          /\ log'[Len(log')].res = Ok(<<>>)
          /\ pending' = pending
          /\ consumed' = consumed
          /\ arrived' = arrived]_vars

\* custom_message has returned Ok(()) and the two events that arrived are
\* both in the queue, no connection having been accepted.
C21_Witness ==
    /\ Len(log) = 1
    /\ log[1].op = "custom_message" /\ log[1].res = Ok(<<>>)
    /\ Len(cmds) = 1
    /\ consumed = 0
    /\ Len(pending) = 2



ExecuteOps == {"execute", "execute_on_object"}

\* C22: an execute or execute_on_object that returned sent returnID 5 and
\* returned the first ReturnValue that arrived after the connections
\* accepted before the call, with that event's own returnID, whatever it
\* is: no ReturnValue was passed over on account of its returnID.
C22_NoCorrelation ==
    \A i \in 1..Len(log) :
        LET e == log[i] IN
        (e.op \in ExecuteOps /\ e.res.ok) =>
            /\ cmds[e.n1][2] = <<"returnID", Num(5)>>
            /\ e.idx = FirstMatch(e.from, "AnswerReturn")
            /\ e.res.val.return_id = arrived[e.idx].val.v["returnID"].v
            /\ e.res.val = BodyOf(arrived[e.idx])

\* execute sent returnID 5 and returned the ReturnValue with returnID 7 that
\* arrived first, although one with returnID 5 arrived behind it.
C22_Witness ==
    /\ Len(log) = 1
    /\ log[1].op = "execute" /\ log[1].res.ok
    /\ cmds[1][2] = <<"returnID", Num(5)>>
    /\ arrived = <<EvReturnHi, EvReturn2>>
    /\ log[1].res.val.return_id = 7
    /\ log[1].res.val.return_value = Str(<<"h", "i">>)



\* A step in which a facade call has sent its command and starts to wait.
StartsWaiting == pc = "idle" /\ pc' = "wait" /\ cur'.op \in WaitingOps

\* A turn of the wait of a facade call that finds an event of the awaited
\* variant at the head of the queue.
TurnOnMatch ==
    /\ pc = "wait" /\ cur.op \in WaitingOps
    /\ consumed' # consumed
    /\ VariantOf(Head(pending).w) = cur.want

\* C23: the step in which a facade call sends its command leaves the queue
\* of the listener as it is, so the events that arrived before the call are
\* the first the wait meets; and a turn of the wait that meets an event of
\* the awaited variant returns that one, whenever it arrived, and leaves
\* everything behind it, the reply to the command included, in the queue.
C23_NoFlushAtSend ==
    [][/\ StartsWaiting =>
            /\ pending' = pending
            /\ consumed' = consumed
            /\ cur'.from = consumed
       /\ TurnOnMatch =>
            /\ pc' = "idle"
            /\ log' = Append(log, log'[Len(log')])
            /\ log'[Len(log')].idx = Head(pending).n
            /\ log'[Len(log')].res = Ok(BodyOf(Head(pending).w))
            /\ pending' = Tail(pending)]_vars

\* get_scripts has returned the first of two Reloaded events and the second
\* one is in the queue for the next call.
C23_Witness ==
    /\ Len(log) = 1
    /\ log[1].op = "get_scripts" /\ log[1].res.ok
    /\ arrived = <<EvReload, EvReload>>
    /\ log[1].idx = 1
    /\ pending = <<[n |-> 2, w |-> EvReload]>>



\* C24: a facade call that returned an error returned the error of the
\* connect: no outbound stream was opened, no command reached the game and
\* no inbound connection was accepted during the call.  A facade call during
\* which a stream was opened returned Ok, and a call that has sent its
\* command is idle again, waiting, or has panicked.
C24_ErrOnlyFromConnect ==
    /\ \A i \in 1..Len(log) :
        LET e == log[i] IN
        e.op \in FacadeOps =>
            /\ ~e.res.ok =>
                /\ e.res = Err("io")
                /\ e.s1 = e.s0
                /\ e.c1 = e.c0 + 1
                /\ e.n1 = e.n0
                /\ e.upto = e.from /\ e.idx = 0
            /\ e.s1.opened > e.s0.opened => e.res.ok
    /\ (cur # NoCall /\ cur.op \in FacadeOps) =>
        /\ pc \in {"wait", "panic"}
        /\ streams.opened > cur.s0.opened

\* A get_scripts returned the connect error; the game was started and the
\* execute that followed returned its ReturnValue.
C24_Witness ==
    /\ Len(log) = 2
    /\ log[1].op = "get_scripts" /\ log[1].res = Err("io")
    /\ log[1].s1.opened = 0
    /\ log[2].op = "execute" /\ log[2].res.ok
    /\ log[2].s1.opened = 1



ListenOps == {"read", "wait"}

\* C25: a read or wait that returned made no connect attempt, opened no
\* outbound stream and put no command on the wire between its call and its
\* return, a wait returned the first event of its variant after the
\* connections accepted before it, and the same holds so far for a read or
\* wait that has not returned.
C25_ListenOnly ==
    /\ \A i \in 1..Len(log) :
        LET e == log[i] IN
        e.op \in ListenOps =>
            /\ e.c1 = e.c0
            /\ e.s1 = e.s0
            /\ e.n1 = e.n0
            /\ e.op = "wait" => e.idx = FirstMatch(e.from, e.want)
    /\ (cur # NoCall /\ cur.op \in ListenOps) =>
        /\ connects = cur.c0
        /\ streams = cur.s0
        /\ Len(cmds) = cur.n0

\* With no command ever sent, a wait for ObjectPushed has passed over a
\* Printed event and returned the ObjectPushed event behind it.
C25_Witness ==
    /\ Len(log) = 1
    /\ log[1].op = "wait" /\ log[1].want = "AnswerNewObject"
    /\ log[1].res.ok
    /\ arrived = <<EvPrint, EvNewObject>>
    /\ cmds = <<>> /\ connects = 0



\* C26: a narrowing to T is Ok exactly when its input is of variant T, and
\* then it is Ok of the input's payload; else it is the error
\* Error::AnswerError, for an Answer, or Error::MessageError, for a Message,
\* that holds the input as it was.  Of the eight narrowings of an Answer
\* and of the four of a Message one and only one is Ok.
C26_NarrowingExact ==
    nout # NotNarrowed =>
        /\ nout.ok <=> nin.tag = nT
        /\ nout.ok => nout.val = nin.body
        /\ (~nout.ok /\ nT \in AnswerTypes) => nout.err = Error_AnswerError(nin)
        /\ (~nout.ok /\ nT \in MessageTags) => nout.err = Error_MessageError(nin)
        /\ nT \in AnswerTypes =>
               Cardinality({T \in AnswerTypes : try_from(T, nin).ok}) = 1
        /\ nT \in MessageTags =>
               Cardinality({T \in MessageTags : message_try_from(T, nin).ok}) = 1

\* The narrowing of a Printed event to AnswerReturn has returned the error
\* that holds the Printed event.
C26_Witness ==
    /\ nin.tag = "AnswerPrint"
    /\ nT = "AnswerReturn"
    /\ ~nout.ok
    /\ nout.err.error = "AnswerError"
    /\ nout.err.of.body.message = <<"x">>



\* The Execute command of an execute and of an execute_on_object.
ExecuteCommand(guid, script) ==
    <<<<"messageID", Num(3)>>, <<"returnID", Num(5)>>, <<"guid", Str(guid)>>,
      <<"script", Str(script)>>>>

\* The command that call record e put on the wire.
CommandOf(e) == cmds[e.n0 + 1]

\* The calls made so far that have sent a command: those that returned Ok
\* and the one that is waiting.
SentCalls ==
    {log[i] : i \in {j \in 1..Len(log) : log[j].res.ok /\ log[j].op \in FacadeOps}}
    \cup (IF pc = "wait" /\ cur.op \in FacadeOps THEN {cur} ELSE {})

\* C27: every Execute command on the wire has returnID 5; the command of an
\* execute has guid "-1" and a script of the caller, the command of an
\* execute_on_object a guid and a script of the caller; so any two Execute
\* commands on the wire have the same returnID.
C27_ReturnIdFive ==
    /\ \A n \in 1..Len(cmds) :
        cmds[n][1] = <<"messageID", Num(3)>> =>
            /\ Len(cmds[n]) = 4
            /\ cmds[n][2] = <<"returnID", Num(5)>>
            /\ \A m \in 1..Len(cmds) :
                cmds[m][1] = <<"messageID", Num(3)>> => cmds[m][2] = cmds[n][2]
    /\ \A e \in SentCalls :
        /\ e.op = "execute" =>
               \E script \in Scripts :
                   CommandOf(e) = ExecuteCommand(<<"-", "1">>, script)
        /\ e.op = "execute_on_object" =>
               \E script \in Scripts, guid \in Guids :
                   CommandOf(e) = ExecuteCommand(guid, script)

\* An execute has returned and an execute_on_object is waiting: the two
\* commands on the wire differ in their guid and both have returnID 5.
C27_Witness ==
    /\ Len(cmds) = 2
    /\ Len(log) = 1 /\ log[1].op = "execute" /\ log[1].res.ok
    /\ pc = "wait" /\ cur.op = "execute_on_object"
    /\ cmds[1] = ExecuteCommand(<<"-", "1">>, <<"r">>)
    /\ cmds[2] = ExecuteCommand(<<"g">>, <<"r">>)



\* C28: in a decoded ReturnValue a returnValue that is a boolean, a number,
\* an array or an object is the return_value as it is; a returnValue null, no
\* returnValue and the returnValue "null" all give Null; the returnValue
\* "\"abc\"" gives the string abc and the returnValue "\"5\"" the string 5,
\* not the number: one level of encoding is taken off and no more.
C28_SecondStageStringsOnly ==
    (decoded # NotDecoded /\ IsReturnPayload(wire)) =>
        LET out == decoded.val.body.return_value
            o == wire.val
        IN  /\ decoded.ok
            /\ ~has(o, "returnValue") => out = Null
            /\ has(o, "returnValue") =>
                 LET rv == o.v["returnValue"] IN
                 /\ rv.t \in {"bool", "num", "arr", "obj"} => out = rv
                 /\ rv \in {Null, Str(<<"n", "u", "l", "l">>)} => out = Null
                 /\ rv = Str(<<"\"", "a", "b", "c", "\"">>) =>
                        out = Str(<<"a", "b", "c">>)
                 /\ rv = Str(<<"\"", "5", "\"">>) => out = Str(<<"5">>)

\* A ReturnValue whose returnValue is the string "5" in JSON encoding has
\* been decoded to the string 5.
C28_Witness ==
    /\ decoded.ok
    /\ IsReturnPayload(wire)
    /\ has(wire.val, "returnValue")
    /\ wire.val.v["returnValue"] = Str(<<"\"", "5", "\"">>)
    /\ decoded.val.body.return_value = Str(<<"5">>)



\* The fields of the event of variant d that payload object o documents.
DocumentedFields(d, o) ==
    CASE d = 0 -> [script_states |-> o.v["scriptStates"]]
      [] d = 1 -> [save_path |-> o.v["savePath"].v,
                   script_states |-> o.v["scriptStates"]]
      [] d = 2 -> [message |-> o.v["message"].v]
      [] d = 3 -> [error |-> o.v["error"].v, guid |-> o.v["guid"].v,
                   error_message_prefix |-> o.v["errorMessagePrefix"].v]
      [] d = 4 -> [custom_message |-> o.v["customMessage"]]
      [] d = 5 -> [return_id |-> o.v["returnID"].v,
                   return_value |->
                       IF has(o, "returnValue")
                       THEN deserialize_json_string(TRUE, o.v["returnValue"])
                       ELSE Null]
      [] d = 6 -> [saved |-> TRUE]
      [] d = 7 -> [guid |-> o.v["guid"].v]

NoDiscriminant(w) ==
    /\ w.json
    /\ \/ ~has(w.val, "messageID")
       \/ w.val.v["messageID"].t # "num"
       \/ w.val.v["messageID"].v < 0

\* C30: a JSON payload without messageID, or with a messageID that is a
\* string, null, negative or written with a fraction, decodes to no event:
\* the decoder ends as it ends for messageID 8, and read does not return.
C30_NoDiscriminantNoEvent ==
    (decoded # NotDecoded /\ NoDiscriminant(wire)) =>
        /\ ~decoded.ok
        /\ decoded = AnswerDeserialize(EvUnknownId)
        /\ ~readOut.ok
        /\ readOut = read(EvUnknownId)

\* A payload whose messageID is 5.5 and that has the fields of a
\* ReturnValue has been handed to the decoder and no event came of it.
C30_Witness ==
    /\ wire.json
    /\ has(wire.val, "messageID")
    /\ wire.val.v["messageID"] = Float(5, 5)
    /\ has(wire.val, "returnID")
    /\ decoded = Panic
    /\ readOut = Panic

-----------------------------------------------------------------------------
\* The two builds of ExternalEditorApi side by side.  One call is run by the
\* blocking implementation and by the async one in the same environment: the
\* same inbound connections, the same game, the same failing writes.  A run
\* goes one library call at a time; trace lists the calls it has made, each
\* with whether the caller can be held up in it: a blocking call of std::net
\* and std::io in the one build, an awaited future in the other.

RunEvents == {EvPrint, EvReturn2, EvUnknownId}

RunCalls == {[op |-> "new"], [op |-> "read"]}
            \cup {[op |-> "send", message |-> m] :
                    m \in {MessageGetScripts_new, MessageCustomMessage_new(Obj(<<>>))}}
            \cup {[op |-> "wait", T |-> T] : T \in {"AnswerPrint", "AnswerReturn"}}

Step(name, held) == [step |-> name, held |-> held]

Start(call) ==
    [NoRun EXCEPT !.pc = CASE call.op = "new" -> "bind"
                          [] call.op = "send" -> "connect"
                          [] OTHER -> "accept"]

Did(m, name, held) == [m EXCEPT !.trace = Append(@, Step(name, held))]

Panicked(m) == [m EXCEPT !.pc = "panic", !.ret = Panic]

Returns(m, r) == [m EXCEPT !.pc = "done", !.ret = r]

\* ExternalEditorApi::new of the blocking build.
sync_new(m) ==
    LET b == Did(m, "bind", TRUE) IN
    IF rin.free THEN Returns(b, Ok("Self")) ELSE Panicked(b)

\* ExternalEditorApi::send of the blocking build, one call at a time.
sync_send(m) ==
    CASE m.pc = "connect" ->
            LET c == Did(m, "connect", TRUE) IN
            IF rin.up THEN [c EXCEPT !.pc = "to_string"] ELSE Returns(c, Err("io"))
      [] m.pc = "to_string" ->
            [Did(m, "to_string", FALSE) EXCEPT
                !.pc = "write_all", !.buf = MessageSerialize(rin.call.message)]
      [] m.pc = "write_all" ->
            LET w == Did(m, "write_all", TRUE) IN
            IF rin.writeOk THEN [w EXCEPT !.pc = "flush"] ELSE Panicked(w)
      [] m.pc = "flush" ->
            LET f == Did(m, "flush", TRUE) IN
            IF rin.flushOk THEN Returns(f, Ok(<<>>)) ELSE Panicked(f)

\* ExternalEditorApi::read of the blocking build, one call at a time.  The
\* answer it returns is left in ans with pc "read".
sync_read(m) ==
    CASE m.pc = "accept" ->
            [Did(m, "accept", TRUE) EXCEPT !.pc = "read_to_string", !.taken = @ + 1]
      [] m.pc = "read_to_string" ->
            [Did(m, "read_to_string", TRUE) EXCEPT
                !.pc = "from_str", !.buf = rarrived[m.taken]]
      [] m.pc = "from_str" ->
            LET d == Did(m, "from_str", FALSE) IN
            IF read(m.buf).ok THEN [d EXCEPT !.pc = "read", !.ans = read(m.buf).val]
            ELSE Panicked(d)

\* ExternalEditorApi::wait of the blocking build: read, narrow, return or go
\* round again.
sync_wait(m) ==
    LET r == sync_read(m) IN
    IF r.pc # "read" THEN r
    ELSE LET t == Did(r, "try_from", FALSE) IN
         IF try_from(rin.call.T, r.ans).ok
         THEN Returns(t, Ok(try_from(rin.call.T, r.ans).val))
         ELSE [t EXCEPT !.pc = "accept"]

\* ExternalEditorApi::new of the async build.
async_new(m) ==
    LET b == Did(m, "bind", TRUE) IN
    IF rin.free THEN Returns(b, Ok("Self")) ELSE Panicked(b)

\* ExternalEditorApi::send of the async build, one call at a time.
async_send(m) ==
    CASE m.pc = "connect" ->
            LET c == Did(m, "connect", TRUE) IN
            IF rin.up THEN [c EXCEPT !.pc = "to_string"] ELSE Returns(c, Err("io"))
      [] m.pc = "to_string" ->
            [Did(m, "to_string", FALSE) EXCEPT
                !.pc = "write_all", !.buf = MessageSerialize(rin.call.message)]
      [] m.pc = "write_all" ->
            LET w == Did(m, "write_all", TRUE) IN
            IF rin.writeOk THEN [w EXCEPT !.pc = "flush"] ELSE Panicked(w)
      [] m.pc = "flush" ->
            LET f == Did(m, "flush", TRUE) IN
            IF rin.flushOk THEN Returns(f, Ok(<<>>)) ELSE Panicked(f)

\* ExternalEditorApi::read of the async build, one call at a time.
async_read(m) ==
    CASE m.pc = "accept" ->
            [Did(m, "accept", TRUE) EXCEPT !.pc = "read_to_string", !.taken = @ + 1]
      [] m.pc = "read_to_string" ->
            [Did(m, "read_to_string", TRUE) EXCEPT
                !.pc = "from_str", !.buf = rarrived[m.taken]]
      [] m.pc = "from_str" ->
            LET d == Did(m, "from_str", FALSE) IN
            IF read(m.buf).ok THEN [d EXCEPT !.pc = "read", !.ans = read(m.buf).val]
            ELSE Panicked(d)

\* An async wait that hands back the first answer it reads, whatever its
\* variant.
async_wait_first(m) ==
    LET r == async_read(m) IN
    IF r.pc # "read" THEN r
    ELSE Returns(Did(r, "try_from", FALSE), Ok(r.ans))

\* ExternalEditorApi::wait of the async build.
async_wait(m) ==
    LET r == async_read(m) IN
    IF r.pc # "read" THEN r
    ELSE LET t == Did(r, "try_from", FALSE) IN
         IF try_from(rin.call.T, r.ans).ok
         THEN Returns(t, Ok(try_from(rin.call.T, r.ans).val))
         ELSE [t EXCEPT !.pc = "accept"]

\* A run can go on: it has not returned, and a listener that is asked for a
\* connection has one queued.
CanStep(m) ==
    /\ m.pc \notin {"none", "done", "panic"}
    /\ m.pc = "accept" => m.taken < Len(rarrived)

\* A read that was called on its own returns the answer it decoded.
ReadReturns(m) == IF m.pc = "read" THEN Returns(m, Ok(m.ans)) ELSE m

RunInit ==
    /\ peerUp = FALSE
    /\ Fresh
    /\ wire = NotJson
    /\ decoded = NotDecoded
    /\ readOut = NotDecoded
    /\ BytesIdle
    /\ ThreadsIdle
    /\ ClientBound
    /\ EncoderIdle
    /\ NarrowIdle
    /\ CliIdle
    /\ \E call \in RunCalls, free \in BOOLEAN, up \in BOOLEAN,
          writeOk \in BOOLEAN, flushOk \in BOOLEAN :
        /\ rin = [call |-> call, free |-> free, up |-> up,
                  writeOk |-> writeOk, flushOk |-> flushOk]
        /\ sy = Start(call)
        /\ ay = Start(call)
    /\ rarrived = <<>>

\* The blocking build makes its next library call.
SyncStep ==
    /\ CanStep(sy)
    /\ sy' = CASE rin.call.op = "new" -> sync_new(sy)
               [] rin.call.op = "send" -> sync_send(sy)
               [] rin.call.op = "read" -> ReadReturns(sync_read(sy))
               [] rin.call.op = "wait" -> sync_wait(sy)
    /\ UNCHANGED <<rin, rarrived, ay>>
    /\ UNCHANGED <<protocol, codec, narrow, cli, bytes, threads, client, encoder>>

\* The async build is polled up to its next library call.
AsyncStep ==
    /\ CanStep(ay)
    /\ ay' = CASE rin.call.op = "new" -> async_new(ay)
               [] rin.call.op = "send" -> async_send(ay)
               [] rin.call.op = "read" -> ReadReturns(async_read(ay))
               [] rin.call.op = "wait" -> async_wait(ay)
    /\ UNCHANGED <<rin, rarrived, sy>>
    /\ UNCHANGED <<protocol, codec, narrow, cli, bytes, threads, client, encoder>>

\* The game connects to the inbound address and writes one payload.
RunEmit == \E w \in RunEvents :
    /\ Len(rarrived) < MaxEvents
    /\ rarrived' = Append(rarrived, w)
    /\ UNCHANGED <<rin, sy, ay>>
    /\ UNCHANGED <<protocol, codec, narrow, cli, bytes, threads, client, encoder>>

RunNext ==
    \/ SyncStep
    \/ AsyncStep
    \/ RunEmit

RunSpec == RunInit /\ [][RunNext]_vars

IsPrefix(s, t) == Len(s) <= Len(t) /\ SubSeq(t, 1, Len(s)) = s

\* The connections a run has left queued.
LeftPending(m) == SubSeq(rarrived, m.taken + 1, Len(rarrived))

\* C31: the async build refines the blocking one.  Run on the same call in
\* the same environment, the two make the same library calls in the same
\* order and can be held up in the same ones; whenever they have made equally
\* many calls they are at the same place, have accepted the same connections
\* and, when they have returned, have returned the same value, leaving the
\* same connections queued.
C31_AsyncRefinesSync ==
    /\ IsPrefix(sy.trace, ay.trace) \/ IsPrefix(ay.trace, sy.trace)
    /\ Len(sy.trace) = Len(ay.trace) =>
        /\ sy.pc = ay.pc
        /\ sy.ret = ay.ret
        /\ LeftPending(sy) = LeftPending(ay)

\* Both builds have waited for a return value, dropped the first answer and
\* returned the second.
C31_Witness ==
    /\ rin.call = [op |-> "wait", T |-> "AnswerReturn"]
    /\ sy.pc = "done" /\ ay.pc = "done"
    /\ sy.taken = 2 /\ ay.taken = 2
    /\ sy.ret.ok /\ ay.ret = sy.ret
    /\ Len(ay.trace) = 8

-----------------------------------------------------------------------------
\* The command line tool ttsst (src/bin/ttsst): attach and reload, the steps
\* they are made of, and the game session they talk to.  Tags, file names and
\* guids are texts.

ScriptsDir == <<"s", "c", "r", "i", "p", "t", "s", "/">>

\* The characters of the class [\d\w] among those the model writes.
WordChars == {"a", "b", "c", "g", "i", "l", "n", "p", "r", "s", "t", "u", "X",
              "0", "1", "2", "3", "_"}

\* Regex ^(scripts/)[\d\w]+(\.lua|.ttslua)$ : the whole text is "scripts/",
\* one or more word characters, and then either ".lua" or any one character
\* but a line feed followed by "ttslua".
is_match(text) ==
    \E n \in 1..(Len(text) - Len(ScriptsDir)) :
        LET rest_ == SubSeq(text, Len(ScriptsDir) + n + 1, Len(text)) IN
        /\ SubSeq(text, 1, Len(ScriptsDir)) = ScriptsDir
        /\ \A i \in 1..n : text[Len(ScriptsDir) + i] \in WordChars
        /\ \/ rest_ = <<".", "l", "u", "a">>
           \/ /\ Len(rest_) = 7
              /\ rest_[1] # "\n"
              /\ SubSeq(rest_, 2, 7) = <<"t", "t", "s", "l", "u", "a">>

\* Value::to_string of a string: the text in double quotes, with a backslash
\* before every double quote and backslash in it.
RECURSIVE escape(_)
escape(s) ==
    IF s = <<>> THEN <<>>
    ELSE IF Head(s) \in {"\"", "\\"} THEN <<"\\", Head(s)>> \o escape(Tail(s))
    ELSE <<Head(s)>> \o escape(Tail(s))

to_string(value) == <<"\"">> \o escape(value.v) \o <<"\"">>

\* snailquote::unescape inside the quotes: a backslash stands for the
\* character after it.
RECURSIVE unquote(_)
unquote(s) ==
    IF s = <<>> THEN <<>>
    ELSE IF Head(s) = "\\" /\ Len(s) > 1 THEN <<s[2]>> \o unquote(Tail(Tail(s)))
    ELSE <<Head(s)>> \o unquote(Tail(s))

\* snailquote::unescape of a text: a quoted text loses its quotes and its
\* escapes, any other text is taken as it is.
unescape(s) ==
    IF Len(s) >= 2 /\ Head(s) = "\"" /\ s[Len(s)] = "\""
    THEN unquote(SubSeq(s, 2, Len(s) - 1))
    ELSE s

unescape_value(value) == unescape(to_string(value))

\* A split that keeps every tag on the side of the tags to be carried over.
get_valid_tags_kept(tags) ==
    [valid |-> SelectSeq(tags, LAMBDA tag : is_match(unescape_value(tag))),
     invalid |-> tags]

\* get_valid_tags: the tags that match the naming convention and the ones
\* that do not, each in the order they came in.
get_valid_tags(tags) ==
    [valid |-> SelectSeq(tags, LAMBDA tag : is_match(unescape_value(tag))),
     invalid |-> SelectSeq(tags, LAMBDA tag : ~is_match(unescape_value(tag)))]

\* Path::file_name of a tag: what follows its last slash.
RECURSIVE file_name(_)
file_name(text) ==
    IF \E i \in 1..Len(text) : text[i] = "/"
    THEN file_name(Tail(text))
    ELSE text

\* get_file_from_tag: the file of a tag under the path, or the error.
get_file_from_tag(tag) ==
    IF fsys.path = "dir"
    THEN IF file_name(tag) \in fsys.files
         THEN Ok(file_name(tag))
         ELSE Err("not found")
    ELSE Err("is not a directory")

\* The texts of the model.
GuidOne == <<"g", "1">>
GuidTwo == <<"g", "2">>
GuidGone == <<"g", "3">>

ToolGuids == <<GuidOne, GuidTwo>>

FileLua == <<"a", ".", "l", "u", "a">>
FileDash == <<"a", "-", "b", ".", "l", "u", "a">>
FileGlobal == <<"G", "l", "o", "b", "a", "l", ".", "t", "t", "s", "l", "u", "a">>

TagLua == ScriptsDir \o FileLua
TagTts == ScriptsDir \o <<"b", ".", "t", "t", "s", "l", "u", "a">>
TagAny == ScriptsDir \o <<"c", "X", "t", "t", "s", "l", "u", "a">>
TagNote == <<"n", "\"">>

\* The tag lists an object of the session starts with.
TagLists == {<<>>, <<TagNote>>, <<TagLua>>, <<TagLua, TagNote, TagTts>>,
             <<TagNote, TagAny>>}

\* The scripts the tool has the game execute.
LuaGetAllObjects == [fn |-> "getAllObjects"]
LuaTaggedObjects == [fn |-> "getAllObjects.getTags"]
LuaGetTags(guid) == [fn |-> "getTags", guid |-> guid]
LuaSetTags(guid, tags) == [fn |-> "setTags", guid |-> guid, tags |-> tags]
LuaSetLuaScript(guid, script) == [fn |-> "setLuaScript", guid |-> guid, script |-> script]

Present(objs) == SelectSeq(ToolGuids, LAMBDA g : g \in DOMAIN objs)

Values(texts) == [i \in 1..Len(texts) |-> Str(texts[i])]

\* JSON.encode of a table: an array; a table with nothing in it may come
\* out as an object.
Encoded(seq) == IF seq = <<>> THEN {Arr(<<>>), Obj(<<>>)} ELSE {Arr(seq)}

\* What the game makes of a script: the objects afterwards and the value the
\* script returns, or the error of a script that names an object that is not
\* there.
GameExecute(objs, script) ==
    CASE script.fn = "getAllObjects" ->
            {[objs |-> objs, ret |-> Ok(Arr(Values(Present(objs))))]}
      [] script.fn = "getAllObjects.getTags" ->
            LET tagged == {g \in DOMAIN objs : objs[g] # <<>>} IN
            {[objs |-> objs, ret |-> Ok(Obj([g \in tagged |-> Arr(Values(objs[g]))]))]}
      [] script.fn = "getTags" ->
            IF script.guid \in DOMAIN objs
            THEN {[objs |-> objs, ret |-> Ok(v)] : v \in Encoded(Values(objs[script.guid]))}
            ELSE {[objs |-> objs, ret |-> Err("lua")]}
      [] script.fn = "setTags" ->
            IF script.guid \in DOMAIN objs
            THEN {[objs |-> [objs EXCEPT ![script.guid] =
                                [i \in 1..Len(script.tags) |-> script.tags[i].v]],
                   ret |-> Ok(Null)]}
            ELSE {[objs |-> objs, ret |-> Err("lua")]}
      [] script.fn = "setLuaScript" ->
            IF script.guid \in DOMAIN objs
            THEN {[objs |-> objs, ret |-> Ok(Bool(TRUE))]}
            ELSE {[objs |-> objs, ret |-> Err("lua")]}

None == [some |-> FALSE]
Some(x) == [some |-> TRUE, val |-> x]

NoLocals == [site |-> "none", guid |-> <<>>, tag |-> <<>>, tags |-> <<>>,
             queue |-> <<>>, message |-> Null]

\* The script states of the save: the global script comes first.
SavedGlobal == Obj([guid |-> Str(<<"-", "1">>), script |-> Str(<<"s">>),
                    ui |-> Str(<<"u">>)])

SaveStates == {Arr(<<SavedGlobal>>), Arr(<<>>)}

\* The game loads its save again: the objects are the saved ones with the
\* tags they were saved with, and the script states are sent back.
GameReload(states) == [objs |-> fsys.save, ret |-> Ok(states)]

Contains(list, value) == \E i \in 1..Len(list) : list[i] = value

\* The command and its reply are on record, and the game is as the command
\* left it.
Sent(cmd, g) ==
    /\ csent' = Append(csent, [cmd |-> cmd, reply |-> g.ret])
    /\ objects' = g.objs

\* The subcommand returns r to main, or panics with r = Panic.
Exit(r) == cpc' = "exit" /\ cres' = r

\* No connection to the game: the call of the API panics and nothing is sent.
Aborted == Exit(Panic) /\ UNCHANGED <<objects, cloc, csent>>

\* The game answers a script with an error message and no return value:
\* execute goes on waiting.
Hung == cpc' = "hung" /\ UNCHANGED <<cloc, cres>>

\* get_objects on the value the script returned: the array, unwrapped.
get_objects(ret) == IF ret.val.t = "arr" THEN Ok(ret.val.v) ELSE Panic

IsFile == fsys.path = "file"

CanRead == fsys.readable

\* attach up to its first step: the path is checked and the guid taken.
attach ==
    /\ cpc = "start"
    /\ args.op = "attach"
    /\ IF IsFile
       THEN /\ cpc' = IF args.guid.some THEN "set_tag" ELSE "select_object"
            /\ cloc' = [NoLocals EXCEPT
                            !.site = "first",
                            !.guid = IF args.guid.some THEN args.guid.val ELSE <<>>]
            /\ UNCHANGED cres
       ELSE Exit(Err("is not a file")) /\ UNCHANGED cloc
    /\ UNCHANGED <<objects, fsys, args, csent>>
    /\ UNCHANGED <<protocol, codec, narrow, runs, bytes, threads, client, encoder>>

\* select_object: the objects are listed and the user picks one or gives up.
select_object ==
    /\ cpc = "select_object"
    /\ \E up \in BOOLEAN, g \in GameExecute(objects, LuaGetAllObjects) :
        IF ~up THEN Aborted
        ELSE /\ Sent(MessageExecute_new(LuaGetAllObjects), g)
             /\ LET objs == get_objects(g.ret) IN
                IF ~objs.ok THEN Exit(Panic) /\ UNCHANGED cloc
                ELSE \/ \E i \in 1..Len(objs.val) :
                          /\ cloc' = [cloc EXCEPT !.guid = unescape_value(objs.val[i])]
                          /\ cpc' = "set_tag"
                          /\ UNCHANGED cres
                     \/ Exit(Err("could not select an object")) /\ UNCHANGED cloc
    /\ UNCHANGED <<fsys, args>>
    /\ UNCHANGED <<protocol, codec, narrow, runs, bytes, threads, client, encoder>>

\* set_tag up to its guard: the objects are listed and the guid looked up.
set_tag ==
    /\ cpc = "set_tag"
    /\ \E up \in BOOLEAN, g \in GameExecute(objects, LuaGetAllObjects) :
        IF ~up THEN Aborted
        ELSE /\ Sent(MessageExecute_new(LuaGetAllObjects), g)
             /\ LET objs == get_objects(g.ret) IN
                IF ~objs.ok THEN Exit(Panic) /\ UNCHANGED cloc
                ELSE IF ~Contains(objs.val, Str(cloc.guid))
                THEN Exit(Err("does not exist")) /\ UNCHANGED cloc
                ELSE /\ cpc' = "set_tag_get"
                     /\ cloc' = [cloc EXCEPT !.tag = ScriptsDir \o args.file_name]
                     /\ UNCHANGED cres
    /\ UNCHANGED <<fsys, args>>
    /\ UNCHANGED <<protocol, codec, narrow, runs, bytes, threads, client, encoder>>

\* set_tag: the tags of the object are fetched and the new list is made.
set_tag_get ==
    /\ cpc = "set_tag_get"
    /\ \E up \in BOOLEAN, g \in GameExecute(objects, LuaGetTags(cloc.guid)) :
        IF ~up THEN Aborted
        ELSE /\ Sent(MessageExecute_new(LuaGetTags(cloc.guid)), g)
             /\ IF ~g.ret.ok THEN Hung
                ELSE IF g.ret.val.t = "arr"
                THEN /\ cloc' = [cloc EXCEPT !.tags =
                            Append(get_valid_tags(g.ret.val.v).invalid, Str(cloc.tag))]
                     /\ cpc' = "set_tag_put"
                     /\ UNCHANGED cres
                ELSE Exit(Err("could not set tag")) /\ UNCHANGED cloc
    /\ UNCHANGED <<fsys, args>>
    /\ UNCHANGED <<protocol, codec, narrow, runs, bytes, threads, client, encoder>>

\* set_tag: the new list is sent and the tag returned.
set_tag_put ==
    /\ cpc = "set_tag_put"
    /\ \E up \in BOOLEAN, g \in GameExecute(objects, LuaSetTags(cloc.guid, cloc.tags)) :
        IF ~up THEN Aborted
        ELSE /\ Sent(MessageExecute_new(LuaSetTags(cloc.guid, cloc.tags)), g)
             /\ IF ~g.ret.ok THEN Hung
                ELSE IF cloc.site = "first"
                THEN cpc' = "attach_read" /\ UNCHANGED <<cloc, cres>>
                ELSE Exit(Ok(<<>>)) /\ UNCHANGED cloc
    /\ UNCHANGED <<fsys, args>>
    /\ UNCHANGED <<protocol, codec, narrow, runs, bytes, threads, client, encoder>>

\* An attach that sets an empty script when the file cannot be read.
attach_read_lenient ==
    /\ cpc = "attach_read"
    /\ cpc' = "set_script"
    /\ UNCHANGED <<cloc, cres>>
    /\ UNCHANGED <<objects, fsys, args, csent>>
    /\ UNCHANGED <<protocol, codec, narrow, runs, bytes, threads, client, encoder>>

\* attach: fs::read_to_string(path)?
attach_read ==
    /\ cpc = "attach_read"
    /\ IF CanRead
       THEN cpc' = "set_script" /\ UNCHANGED <<cloc, cres>>
       ELSE Exit(Err("io")) /\ UNCHANGED cloc
    /\ UNCHANGED <<objects, fsys, args, csent>>
    /\ UNCHANGED <<protocol, codec, narrow, runs, bytes, threads, client, encoder>>

\* A set_script that lists the objects and goes on whatever the list holds.
set_script_unchecked ==
    /\ cpc = "set_script"
    /\ \E up \in BOOLEAN, g \in GameExecute(objects, LuaGetAllObjects) :
        IF ~up THEN Aborted
        ELSE /\ Sent(MessageExecute_new(LuaGetAllObjects), g)
             /\ LET objs == get_objects(g.ret) IN
                IF ~objs.ok THEN Exit(Panic) /\ UNCHANGED cloc
                ELSE cpc' = "set_script_put" /\ UNCHANGED <<cloc, cres>>
    /\ UNCHANGED <<fsys, args>>
    /\ UNCHANGED <<protocol, codec, narrow, runs, bytes, threads, client, encoder>>

\* set_script up to its guard.
set_script ==
    /\ cpc = "set_script"
    /\ \E up \in BOOLEAN, g \in GameExecute(objects, LuaGetAllObjects) :
        IF ~up THEN Aborted
        ELSE /\ Sent(MessageExecute_new(LuaGetAllObjects), g)
             /\ LET objs == get_objects(g.ret) IN
                IF ~objs.ok THEN Exit(Panic) /\ UNCHANGED cloc
                ELSE IF ~Contains(objs.val, Str(cloc.guid))
                THEN Exit(Err("does not exist")) /\ UNCHANGED cloc
                ELSE cpc' = "set_script_put" /\ UNCHANGED <<cloc, cres>>
    /\ UNCHANGED <<fsys, args>>
    /\ UNCHANGED <<protocol, codec, narrow, runs, bytes, threads, client, encoder>>

\* set_script: the script is sent.  The file's text stands for its name.
set_script_put ==
    /\ cpc = "set_script_put"
    /\ LET script == LuaSetLuaScript(cloc.guid, file_name(cloc.tag)) IN
       \E up \in BOOLEAN, g \in GameExecute(objects, script) :
        IF ~up THEN Aborted
        ELSE /\ Sent(MessageExecute_new(script), g)
             /\ IF ~g.ret.ok THEN Hung
                ELSE /\ cpc' = IF cloc.site = "first" THEN "attach_reload"
                               ELSE "reload_loop"
                     /\ UNCHANGED <<cloc, cres>>
    /\ UNCHANGED <<fsys, args>>
    /\ UNCHANGED <<protocol, codec, narrow, runs, bytes, threads, client, encoder>>

\* attach: api.reload(json!([])), and then the tag is set again.
attach_reload ==
    /\ cpc = "attach_reload"
    /\ \E up \in BOOLEAN, states \in SaveStates :
        IF ~up THEN Aborted
        ELSE /\ Sent(MessageReload_new(Arr(<<>>)), GameReload(states))
             /\ cpc' = "set_tag"
             /\ cloc' = [cloc EXCEPT !.site = "second"]
             /\ UNCHANGED cres
    /\ UNCHANGED <<fsys, args>>
    /\ UNCHANGED <<protocol, codec, narrow, runs, bytes, threads, client, encoder>>

\* The entries of the map the game returned, in the order of their keys.
Entries(value) ==
    IF value.t = "obj"
    THEN LET keys == SelectSeq(ToolGuids, LAMBDA g : g \in DOMAIN value.v) IN
         [i \in 1..Len(keys) |-> [guid |-> keys[i], tags |-> value.v[keys[i]]]]
    ELSE <<>>

\* reload up to its loop: the tagged objects are fetched with their tags.
app_reload ==
    /\ cpc = "start"
    /\ args.op = "reload"
    /\ \E up \in BOOLEAN, g \in GameExecute(objects, LuaTaggedObjects) :
        IF ~up THEN Aborted
        ELSE /\ Sent(MessageExecute_new(LuaTaggedObjects), g)
             /\ cloc' = [NoLocals EXCEPT !.site = "loop", !.queue = Entries(g.ret.val)]
             /\ cpc' = "reload_loop"
             /\ UNCHANGED cres
    /\ UNCHANGED <<fsys, args>>
    /\ UNCHANGED <<protocol, codec, narrow, runs, bytes, threads, client, encoder>>

\* A loop that passes over an object with several script tags.
reload_object_skip ==
    /\ cpc = "reload_loop"
    /\ cloc.queue # <<>>
    /\ LET guid == Head(cloc.queue).guid
           tags == Head(cloc.queue).tags
           valid_tags == IF tags.t = "arr" THEN get_valid_tags(tags.v).valid ELSE <<>>
       IN
       IF Len(valid_tags) # 1
       THEN cloc' = [cloc EXCEPT !.queue = Tail(@)] /\ UNCHANGED <<cpc, cres>>
       ELSE LET tag == unescape_value(valid_tags[1]) IN
            IF ~get_file_from_tag(tag).ok
            THEN Exit(get_file_from_tag(tag)) /\ UNCHANGED cloc
            ELSE IF ~CanRead THEN Exit(Err("io")) /\ UNCHANGED cloc
            ELSE /\ cloc' = [cloc EXCEPT !.queue = Tail(@), !.guid = guid, !.tag = tag]
                 /\ cpc' = "set_script"
                 /\ UNCHANGED cres
    /\ UNCHANGED <<objects, fsys, args, csent>>
    /\ UNCHANGED <<protocol, codec, narrow, runs, bytes, threads, client, encoder>>

\* One turn of the loop of reload, up to set_script: the object's valid tags
\* are counted, and for one tag its file is looked up and read.
reload_object ==
    /\ cpc = "reload_loop"
    /\ cloc.queue # <<>>
    /\ LET guid == Head(cloc.queue).guid
           tags == Head(cloc.queue).tags
           valid_tags == IF tags.t = "arr" THEN get_valid_tags(tags.v).valid ELSE <<>>
       IN
       IF Len(valid_tags) > 1
       THEN Exit(Err("has multiple script tags")) /\ UNCHANGED cloc
       ELSE IF Len(valid_tags) = 0
       THEN cloc' = [cloc EXCEPT !.queue = Tail(@)] /\ UNCHANGED <<cpc, cres>>
       ELSE LET tag == unescape_value(valid_tags[1]) IN
            IF ~get_file_from_tag(tag).ok
            THEN Exit(get_file_from_tag(tag)) /\ UNCHANGED cloc
            ELSE IF ~CanRead THEN Exit(Err("io")) /\ UNCHANGED cloc
            ELSE /\ cloc' = [cloc EXCEPT !.queue = Tail(@), !.guid = guid, !.tag = tag]
                 /\ cpc' = "set_script"
                 /\ UNCHANGED cres
    /\ UNCHANGED <<objects, fsys, args, csent>>
    /\ UNCHANGED <<protocol, codec, narrow, runs, bytes, threads, client, encoder>>

\* The global script: the text of Global.ttslua under the path, or else the
\* script of the save.
global_script(script_states) ==
    IF fsys.path = "dir" /\ FileGlobal \in fsys.files /\ CanRead
    THEN Str(FileGlobal)
    ELSE Str(unescape(to_string(script_states[1].v.script)))

\* reload after its loop: the script states are fetched and the message for
\* the global script is made; a save without script states panics.
reload_get_scripts ==
    /\ cpc = "reload_loop"
    /\ cloc.queue = <<>>
    /\ \E up \in BOOLEAN, states \in SaveStates :
        IF ~up THEN Aborted
        ELSE /\ Sent(MessageGetScripts_new, [objs |-> objects, ret |-> Ok(states)])
             /\ IF states.v = <<>>
                THEN Exit(Panic) /\ UNCHANGED cloc
                ELSE /\ cloc' = [cloc EXCEPT !.message =
                            Arr(<<Obj([guid |-> Str(<<"-", "1">>),
                                       script |-> global_script(states.v),
                                       ui |-> Str(unescape(to_string(states.v[1].v.ui)))])>>)]
                     /\ cpc' = "reload_send"
                     /\ UNCHANGED cres
    /\ UNCHANGED <<fsys, args>>
    /\ UNCHANGED <<protocol, codec, narrow, runs, bytes, threads, client, encoder>>

\* reload: api.reload(message), and Ok(()).
reload_send ==
    /\ cpc = "reload_send"
    /\ \E up \in BOOLEAN, states \in SaveStates :
        IF ~up THEN Aborted
        ELSE /\ Sent(MessageReload_new(cloc.message), GameReload(states))
             /\ Exit(Ok(<<>>))
             /\ UNCHANGED cloc
    /\ UNCHANGED <<fsys, args>>
    /\ UNCHANGED <<protocol, codec, narrow, runs, bytes, threads, client, encoder>>

\* An object of the session is deleted while the tool runs.
GameRemove == \E guid \in DOMAIN objects :
    /\ cpc \notin {"start", "exit", "hung"}
    /\ objects' = [g \in DOMAIN objects \ {guid} |-> objects[g]]
    /\ UNCHANGED <<fsys, args, cpc, cloc, csent, cres>>
    /\ UNCHANGED <<protocol, codec, narrow, runs, bytes, threads, client, encoder>>

FileNames == {FileLua, FileDash}

ToolArgs ==
    {[op |-> "attach", file_name |-> f, guid |-> g] :
        f \in FileNames, g \in {None, Some(GuidOne), Some(GuidGone)}}
    \cup {[op |-> "reload", file_name |-> <<>>, guid |-> None]}

Sessions ==
    UNION {[S -> TagLists] : S \in SUBSET {GuidOne, GuidTwo}}

Paths ==
    {[path |-> p, files |-> F, readable |-> r, save |-> s] :
        p \in {"file", "dir", "missing"}, F \in SUBSET {FileLua, FileGlobal},
        r \in BOOLEAN, s \in Sessions}

CliInit ==
    /\ peerUp = FALSE
    /\ Fresh
    /\ wire = NotJson
    /\ decoded = NotDecoded
    /\ readOut = NotDecoded
    /\ BytesIdle
    /\ ThreadsIdle
    /\ ClientBound
    /\ EncoderIdle
    /\ NarrowIdle
    /\ RunsIdle
    /\ objects \in Sessions
    /\ args \in ToolArgs
    /\ fsys \in Paths
    /\ fsys.path # "dir" => fsys.files = {}
    /\ fsys.save = objects
    /\ cpc = "start"
    /\ cloc = NoLocals
    /\ csent = <<>>
    /\ cres = NotReturned

CliNext ==
    \/ attach
    \/ select_object
    \/ set_tag
    \/ set_tag_get
    \/ set_tag_put
    \/ attach_read
    \/ set_script
    \/ set_script_put
    \/ attach_reload
    \/ app_reload
    \/ reload_object
    \/ reload_get_scripts
    \/ reload_send
    \/ GameRemove

CliSpec == CliInit /\ [][CliNext]_vars

-----------------------------------------------------------------------------
\* The commands of the tool.

IsExecute(e, fn) == e.cmd.tag = "MessageExecute" /\ e.cmd.body.script.fn = fn

IsListing(e) == IsExecute(e, "getAllObjects")

Modifying(e) == IsExecute(e, "setTags") \/ IsExecute(e, "setLuaScript")

\* The guids of a listing's reply.
Listed(e) == IF e.reply.val.t = "arr" THEN e.reply.val.v ELSE <<>>

\* The last listing before the i-th command, 0 when there is none.
LastListing(i) ==
    LET S == {j \in 1..(i - 1) : IsListing(csent[j])} IN
    IF S = {} THEN 0 ELSE CHOOSE j \in S : \A l \in S : l <= j

\* C32: set_tag and set_script list the objects before they change one: a
\* command that sets tags or a script names a guid that the listing before it
\* held, and when the listing does not hold the guid the tool fails with
\* "does not exist" and that listing is the last command it has sent.
C32_GuardBeforeMutation ==
    /\ \A i \in 1..Len(csent) :
        Modifying(csent[i]) =>
            /\ LastListing(i) > 0
            /\ Contains(Listed(csent[LastListing(i)]),
                        Str(csent[i].cmd.body.script.guid))
    /\ (/\ csent # <<>>
        /\ IsListing(csent[Len(csent)])
        /\ csent[Len(csent)].reply.val.t = "arr"
        /\ cloc.guid # <<>>
        /\ ~Contains(Listed(csent[Len(csent)]), Str(cloc.guid)))
       => cpc = "exit" /\ cres = Err("does not exist")
    /\ cres = Err("does not exist") =>
        /\ csent # <<>>
        /\ IsListing(csent[Len(csent)])
        /\ ~Contains(Listed(csent[Len(csent)]), Str(cloc.guid))

\* The object was deleted after its tag was set: set_script has found it
\* missing and the script was not sent.
C32_Witness ==
    /\ cres = Err("does not exist")
    /\ \E i \in 1..Len(csent) : IsExecute(csent[i], "setTags")
    /\ \A i \in 1..Len(csent) : ~IsExecute(csent[i], "setLuaScript")

IsReload(e) == e.cmd.tag = "MessageReload"

IsGetScripts(e) == e.cmd.tag = "MessageGetScripts"

\* A tag follows the naming convention for script tags.
FollowsConvention(tag) == is_match(unescape_value(tag))

ScriptTags(tags) == SelectSeq(tags, FollowsConvention)

\* The tagged objects the game reported to reload, with their tags.
Tagged == IF csent = <<>> THEN <<>> ELSE Entries(csent[1].reply.val)

\* An object reload cannot serve: it has several script tags, or one whose
\* file is not under the path.
Unservable(entry) ==
    \/ Len(ScriptTags(entry.tags.v)) > 1
    \/ /\ Len(ScriptTags(entry.tags.v)) = 1
       /\ ~(fsys.path = "dir" /\ file_name(ScriptTags(entry.tags.v)[1].v) \in fsys.files)

Kind(e) == IF e.cmd.tag = "MessageExecute" THEN e.cmd.body.script.fn ELSE e.cmd.tag

Kinds == [i \in 1..Len(csent) |-> Kind(csent[i])]

\* The commands of set_tag and of set_script.
SetTagCommands == <<"getAllObjects", "getTags", "setTags">>

SetScriptCommands == <<"getAllObjects", "setLuaScript">>

\* The commands of attach, in order: the listing for the selection when no
\* guid is given, the tag, the script, the reload, the tag again.
AttachOrder ==
    (IF args.guid.some THEN <<>> ELSE <<"getAllObjects">>)
    \o SetTagCommands \o SetScriptCommands \o <<"MessageReload">> \o SetTagCommands

\* The number of commands attach has sent when it has set the tag once.
TagSet == Len(AttachOrder) - 6

====
